---------------------------- MODULE Spec2Model ----------------------------
(***************************************************************************)
(* A model of the ZPL -> DPL translation engine:                           *)
(*   - ZplToDplConverter.decompressZplAsciiHex and .convert                *)
(*     (src/unnamed/part_000, lines 1-96),                                 *)
(*   - the three versions of DplLayoutPrinterService.print                 *)
(*     (src/unnamed/part_000 lines 104-227, 234-338 and                    *)
(*      src/unnamed/part_001 lines 7-90, which part_000 repeats at         *)
(*      lines 412-495),                                                    *)
(*   - imageToMonochromeBitmap and bitmapToDplHex (src/unnamed/part_001),  *)
(*   - the click handler of the DPL print button (src/src/initialize.ts).  *)
(*                                                                         *)
(* A JavaScript string is a sequence of characters; a character is a       *)
(* one-character TLA+ string, except STX (U+0002), written "STX", and the  *)
(* white space characters outside ASCII, written "VT", "NBSP", "U+2000"... *)
(***************************************************************************)
EXTENDS Integers, Sequences, FiniteSets, TLC

VARIABLES
    mode,             \* which entry point this behaviour exercises
    zplData,          \* argument of decompressZplAsciiHex
    decompressResult, \* its completion: returned string or thrown error
    bitmap,           \* argument of bitmapToDplHex
    hexResult,        \* its completion
    zplCode,          \* argument of ZplToDplConverter.convert
    convertResult,    \* its completion: the returned script or a thrown error
    version,          \* which version of DplLayoutPrinterService is in use
    designItems,      \* the placed elements, argument of every print call
    dataDplName,      \* each element's data-dpl-name attribute, <<>> when absent
    argument,         \* per print call: the kind of value it was handed
    pc,               \* per print call: "idle", "loading" (at the await), "done"
                      \* (the promise has settled)
    loading,          \* per print call: the item whose image is being loaded
    pendingName,      \* per print call: imageName of the item being loaded
    imageStorageScript, \* per print call: the accumulator of the first pass
    log,              \* per print call: what console.error / console.warn recorded
    printResult,      \* per print call: the script the promise resolves to
    button,           \* the DPL print button: its disabled flag and its label
    handler           \* the print call the button's click handler awaits, 0 if none

codecVars == <<zplData, decompressResult>>
rasterVars == <<bitmap, hexResult>>
convertVars == <<zplCode, convertResult>>
printVars == <<version, designItems, dataDplName, argument, pc, loading, pendingName,
               imageStorageScript, log, printResult>>
buttonVars == <<button, handler>>
vars == <<mode, codecVars, rasterVars, convertVars, printVars, buttonVars>>

(***************************************************************************)
(* Characters and the String methods the code uses.                        *)
(***************************************************************************)
STX == "STX"
CR  == "\r"
LF  == "\n"

UpperLetters ==
    <<"A","B","C","D","E","F","G","H","I","J","K","L","M",
      "N","O","P","Q","R","S","T","U","V","W","X","Y","Z">>
LowerLetters ==
    <<"a","b","c","d","e","f","g","h","i","j","k","l","m",
      "n","o","p","q","r","s","t","u","v","w","x","y","z">>
DigitChars == <<"0","1","2","3","4","5","6","7","8","9">>

Range(s) == { s[i] : i \in DOMAIN s }
IndexOf(s, c) == CHOOSE i \in DOMAIN s : s[i] = c

IsUpper(c) == c \in Range(UpperLetters)
IsLower(c) == c \in Range(LowerLetters)
IsDigit(c) == c \in Range(DigitChars)

\* String.fromCharCode on the ASCII digits and letters
FromCharCode(n) ==
    IF n >= 48 /\ n <= 57 THEN DigitChars[n - 47]
    ELSE IF n >= 65 /\ n <= 90 THEN UpperLetters[n - 64]
    ELSE IF n >= 97 /\ n <= 122 THEN LowerLetters[n - 96]
    ELSE "?"

\* String.prototype.toUpperCase, one character
UpperChar(c) == IF IsLower(c) THEN UpperLetters[IndexOf(LowerLetters, c)] ELSE c
\* String.prototype.toLowerCase, one character
LowerChar(c) == IF IsUpper(c) THEN LowerLetters[IndexOf(UpperLetters, c)] ELSE c

ToUpperCase(s) == [i \in DOMAIN s |-> UpperChar(s[i])]
ToLowerCase(s) == [i \in DOMAIN s |-> LowerChar(s[i])]

\* String.prototype.repeat
Repeat(c, n) == [i \in 1..n |-> c]

\* String.prototype.padStart(targetLength, padChar), one-character pad
PadStart(s, n, c) == IF Len(s) >= n THEN s ELSE Repeat(c, n - Len(s)) \o s

RECURSIVE Flatten(_)
Flatten(ss) == IF ss = <<>> THEN <<>> ELSE Head(ss) \o Flatten(Tail(ss))

\* all sequences over S of length at most n
SeqsUpTo(S, n) == UNION { [1..k -> S] : k \in 0..n }

(***************************************************************************)
(* ZplToDplConverter.decompressZplAsciiHex                                 *)
(***************************************************************************)
\* the completion of a call: a returned value or a thrown error
Returned(v) == [status |-> "ok", value |-> v, error |-> "none"]
Thrown(e)   == [status |-> "throw", value |-> <<>>, error |-> e]
NotCalled   == [status |-> "none", value |-> <<>>, error |-> "none"]

FirstTokenRank == 1
LastTokenRank == 19
UpperTokenBase == 70
LowerTokenBase == 102
LowerTokenFactor == 20

\* countCharMap[char], 0 when the key is absent (undefined is falsy)
CountCharMap(char) ==
    IF \E i \in FirstTokenRank..LastTokenRank : FromCharCode(UpperTokenBase + i) = char
    THEN CHOOSE i \in FirstTokenRank..LastTokenRank : FromCharCode(UpperTokenBase + i) = char
    ELSE IF \E i \in FirstTokenRank..LastTokenRank : FromCharCode(LowerTokenBase + i) = char
    THEN LowerTokenFactor *
         (CHOOSE i \in FirstTokenRank..LastTokenRank : FromCharCode(LowerTokenBase + i) = char)
    ELSE 0

\* the step of i after a token and its literal have been consumed
TokenAdvanceLiteralKept == 2 - 1
TokenAdvance == 2

\* zplData[i + 1] is undefined past the end, and undefined.repeat throws TypeError
RepeatLiteralLenient(data, i, count) ==
    IF i + 1 > Len(data) THEN Returned(<<>>)
    ELSE Returned(Repeat(data[i + 1], count))
RepeatLiteral(data, i, count) ==
    IF i + 1 > Len(data) THEN Thrown("TypeError")
    ELSE Returned(Repeat(data[i + 1], count))

\* the final normalisation of the accumulated string
NormalizeLenient(decompressed) == decompressed
Normalize(decompressed) == ToUpperCase(decompressed)

\* the while loop; i is the 1-based index of the character the code calls zplData[i]
RECURSIVE DecompressLoop(_, _, _)
DecompressLoop(data, i, decompressed) ==
    IF i > Len(data) THEN Returned(Normalize(decompressed))
    ELSE LET char == data[i] IN
         IF CountCharMap(char) # 0
         THEN LET rep == RepeatLiteral(data, i, CountCharMap(char)) IN
              IF rep.status = "throw" THEN rep
              ELSE DecompressLoop(data, i + TokenAdvance, decompressed \o rep.value)
         ELSE DecompressLoop(data, i + 1, Append(decompressed, char))

decompressZplAsciiHex(data) == DecompressLoop(data, 1, <<>>)

(***************************************************************************)
(* bitmapToDplHex                                                          *)
(***************************************************************************)
HexDigits == <<"0","1","2","3","4","5","6","7","8","9","a","b","c","d","e","f">>
HexRadix == 16
ByteBits == 8
HexWidth == 2

\* Number.prototype.toString(16) of a non-negative integer
RECURSIVE ToString16(_)
ToString16(n) ==
    IF n < HexRadix THEN <<HexDigits[n + 1]>>
    ELSE Append(ToString16(n \div HexRadix), HexDigits[(n % HexRadix) + 1])

\* byte.toString(16).padStart(2, '0').toUpperCase()
ByteToHex(byte) == ToUpperCase(PadStart(ToString16(byte), HexWidth, "0"))

\* (byte << 1) | bit, for a bit in {0, 1}
ShiftInBit(byte, bit) == IF bit = 1 THEN 2 * byte + 1 ELSE 2 * byte

RECURSIVE ShiftLeft(_, _)
ShiftLeft(byte, n) == IF n = 0 THEN byte ELSE ShiftLeft(2 * byte, n - 1)

\* the flush of the bits left over at the end of a row
FlushRowNoShift(byte, bitCount) ==
    IF bitCount > 0 THEN ByteToHex(byte) ELSE <<>>
FlushRowDropped(byte, bitCount) == <<>>
FlushRow(byte, bitCount) ==
    IF bitCount > 0 THEN ByteToHex(ShiftLeft(byte, ByteBits - bitCount)) ELSE <<>>

\* the inner loop over x of one row y (x, y are 0-based as in the code);
\* returns the hex characters this row adds
RECURSIVE RowLoop(_, _, _, _, _, _)
RowLoop(bm, y, x, byte, bitCount, hex) ==
    IF x >= bm.width THEN hex \o FlushRow(byte, bitCount)
    ELSE LET b == ShiftInBit(byte, bm.data[y * bm.width + x + 1]) IN
         IF bitCount + 1 = ByteBits
         THEN RowLoop(bm, y, x + 1, 0, 0, hex \o ByteToHex(b))
         ELSE RowLoop(bm, y, x + 1, b, bitCount + 1, hex)

RECURSIVE ColumnLoop(_, _, _)
ColumnLoop(bm, y, hexString) ==
    IF y >= bm.height THEN hexString
    ELSE ColumnLoop(bm, y + 1, hexString \o RowLoop(bm, y, 0, 0, 0, <<>>))

bitmapToDplHex(bm) == ColumnLoop(bm, 0, <<>>)

(***************************************************************************)
(* Numbers and strings, as ZplToDplConverter.convert uses them.            *)
(***************************************************************************)
DecimalRadix == 10

RECURSIVE NatToString(_)
NatToString(n) ==
    IF n < DecimalRadix THEN <<DigitChars[n + 1]>>
    ELSE Append(NatToString(n \div DecimalRadix), DigitChars[(n % DecimalRadix) + 1])

DigitValue(c) == IndexOf(DigitChars, c) - 1
\* StrWhiteSpaceChar: the white space and line terminator characters of
\* ECMAScript; those a TLA+ string cannot hold are written by name, as STX is
WhiteSpaceChars ==
    {"\t", "VT", "\f", " ", "NBSP", "BOM", LF, CR, "LS", "PS",
     "U+1680", "U+2000", "U+2001", "U+2002", "U+2003", "U+2004", "U+2005",
     "U+2006", "U+2007", "U+2008", "U+2009", "U+200A", "U+202F", "U+205F", "U+3000"}
IsWhiteSpace(c) == c \in WhiteSpaceChars

RECURSIVE SkipWhiteSpace(_, _)
SkipWhiteSpace(s, i) ==
    IF i <= Len(s) /\ IsWhiteSpace(s[i]) THEN SkipWhiteSpace(s, i + 1) ELSE i

RECURSIVE DigitRun(_, _, _)
DigitRun(s, i, acc) ==
    IF i <= Len(s) /\ IsDigit(s[i])
    THEN DigitRun(s, i + 1, DecimalRadix * acc + DigitValue(s[i]))
    ELSE acc

\* String.prototype.split(sep), one-character separator
RECURSIVE SplitLoop(_, _, _, _, _)
SplitLoop(s, sep, i, part, parts) ==
    IF i > Len(s) THEN Append(parts, part)
    ELSE IF s[i] = sep THEN SplitLoop(s, sep, i + 1, <<>>, Append(parts, part))
    ELSE SplitLoop(s, sep, i + 1, Append(part, s[i]), parts)

Split(s, sep) == SplitLoop(s, sep, 1, <<>>, <<>>)

\* s.replace(/[\n\r]/g, '')
RECURSIVE StripLineBreaks(_)
StripLineBreaks(s) ==
    IF s = <<>> THEN <<>>
    ELSE IF Head(s) \in {CR, LF} THEN StripLineBreaks(Tail(s))
    ELSE <<Head(s)>> \o StripLineBreaks(Tail(s))

\* s.substring from the 1-based index a to b inclusive
Slice(s, a, b) == SubSeq(s, a, b)
StartsWithAt(s, i, lit) ==
    /\ i + Len(lit) - 1 <= Len(s)
    /\ \A k \in 1..Len(lit) : s[i + k - 1] = lit[k]

\* the character classes \w, \d, [A-Za-z0-9\n\r] and [A-Z0-9] of the patterns
WordChars == Range(UpperLetters) \cup Range(LowerLetters) \cup Range(DigitChars) \cup {"_"}
DecimalChars == Range(DigitChars)
DataChars == Range(UpperLetters) \cup Range(LowerLetters) \cup Range(DigitChars) \cup {CR, LF}
OpcodeChars == Range(UpperLetters) \cup Range(DigitChars)
\* the characters [^~^] excludes
ParamStops == {"^", "~"}

\* the index after the longest run of characters of the class, from i
RECURSIVE RunEnd(_, _, _)
RunEnd(s, i, class) ==
    IF i <= Len(s) /\ s[i] \in class THEN RunEnd(s, i + 1, class) ELSE i

\* the index of the first character of the set at or after i, Len(s) + 1 if none
RECURSIVE RunUntil(_, _, _)
RunUntil(s, i, stops) ==
    IF i <= Len(s) /\ s[i] \notin stops THEN RunUntil(s, i + 1, stops) ELSE i

(***************************************************************************)
(* Numbers: parseInt, parseFloat, toFixed(0), toString, +.  A number is a   *)
(* double: NaN, an infinity, or mant * 2^exp with a sign, where mant is a   *)
(* natural number of at most 53 bits (none for 0): a natural number of at  *)
(* most 15 digits is kept with exp = 0, any other number with mant odd.    *)
(* Natural numbers of any size are written as their decimal digits, the    *)
(* most significant first, none for 0.                                     *)
(***************************************************************************)
\* the element of a one-element set; The({ F(x) : x \in {e} }) is F(e) with e
\* computed once
The(S) == CHOOSE x \in S : TRUE

\* a digit sequence without its leading zeros
Trim(digits) ==
    The({ IF a = <<>> \/ a[1] # 0 THEN a
          ELSE IF \A i \in DOMAIN a : a[i] = 0 THEN <<>>
          ELSE SubSeq(a, CHOOSE i \in DOMAIN a :
                            a[i] # 0 /\ \A j \in 1..(i - 1) : a[j] = 0, Len(a))
          : a \in {digits} })

\* a natural number without its trailing zeros
StripZeros(digits) ==
    The({ IF a = <<>> \/ a[Len(a)] # 0 THEN a
          ELSE IF \A i \in DOMAIN a : a[i] = 0 THEN <<>>
          ELSE SubSeq(a, 1, CHOOSE i \in DOMAIN a :
                               a[i] # 0 /\ \A j \in (i + 1)..Len(a) : a[j] = 0)
          : a \in {digits} })

Odd(n) == n # <<>> /\ n[Len(n)] % 2 = 1

\* 2 * n: a digit doubles and takes the carry of the digit after it
Twice(n) ==
    The({ LET lead == IF a # <<>> /\ a[1] >= 5 THEN 1 ELSE 0 IN
          [i \in 1..(Len(a) + lead) |->
              (IF i > lead THEN (2 * a[i - lead]) % DecimalRadix ELSE 0)
              + (IF i - lead < Len(a) /\ a[i - lead + 1] >= 5 THEN 1 ELSE 0)]
          : a \in {n} })

\* n \div 2: a digit halves and takes 5 from an odd digit before it
Half(n) ==
    The({ LET drop == IF a # <<>> /\ a[1] < 2 THEN 1 ELSE 0 IN
          [i \in 1..(Len(a) - drop) |->
              a[i + drop] \div 2
              + (IF i + drop > 1 /\ a[i + drop - 1] % 2 = 1 THEN 5 ELSE 0)]
          : a \in {n} })

\* n * 2^k, n \div 2^k and n * 5^k
RECURSIVE Doubled(_, _)
Doubled(n, k) ==
    IF k <= 0 THEN n
    ELSE IF k = 1 THEN Twice(n)
    ELSE The({ Doubled(half, rest) : half \in {Doubled(n, k \div 2)}, rest \in {k - k \div 2} })

RECURSIVE Halved(_, _)
Halved(n, k) ==
    IF k <= 0 THEN n
    ELSE IF k = 1 THEN Half(n)
    ELSE The({ Halved(half, rest) : half \in {Halved(n, k \div 2)}, rest \in {k - k \div 2} })

RECURSIVE Fived(_, _)
Fived(n, k) ==
    IF k <= 0 THEN n
    ELSE IF k = 1 THEN Half(Append(n, 0))
    ELSE The({ Fived(half, rest) : half \in {Fived(n, k \div 2)}, rest \in {k - k \div 2} })

\* m < n
Less(m, n) ==
    The({ \/ Len(a) < Len(b)
          \/ /\ Len(a) = Len(b)
             /\ \E i \in DOMAIN a : a[i] < b[i] /\ \A j \in 1..(i - 1) : a[j] = b[j]
          : a \in {m}, b \in {n} })

\* the digit of n at place i, the units at place 1
DigitAt(n, i) == IF i <= Len(n) THEN n[Len(n) + 1 - i] ELSE 0

\* the digits of m + sign * n + carry at the places first..last, and the
\* carry out of them.  A carry comes into a place from the nearest place
\* below that makes one (a sum of 10 or more, a difference below 0) when
\* every place between passes it on (a sum of 9, a difference of 0), and
\* from below first when all the places do
PlaceSumShort(m, n, sign, first, last, carry) ==
    LET At(i) == DigitAt(m, i) + sign * DigitAt(n, i)
        Makes(i) == IF sign = 1 THEN At(i) >= DecimalRadix ELSE At(i) < 0
        Passes(i) == IF sign = 1 THEN At(i) = DecimalRadix - 1 ELSE At(i) = 0
        Into(i) == IF \E j \in first..(i - 1) :
                          Makes(j) /\ \A k \in (j + 1)..(i - 1) : Passes(k)
                   THEN sign
                   ELSE IF \A k \in first..(i - 1) : Passes(k) THEN carry ELSE 0
    IN  [digits |-> [i \in 1..(last - first + 1) |->
                        (At(last + 1 - i) + Into(last + 1 - i)) % DecimalRadix],
         carry |-> Into(last + 1)]

\* the same for any number of places: up to 8 at once, of more the lower
\* half first, then the upper
RECURSIVE PlaceSum(_, _, _, _, _, _)
PlaceSum(m, n, sign, first, last, carry) ==
    The({ IF to - from < 8 THEN PlaceSumShort(a, b, sign, from, to, c)
          ELSE The({ The({ [digits |-> upper.digits \o lower.digits, carry |-> upper.carry]
                           : upper \in { PlaceSum(a, b, sign, (from + to) \div 2 + 1, to,
                                                  lower.carry) } })
                     : lower \in { PlaceSum(a, b, sign, from, (from + to) \div 2, c) } })
          : a \in {m}, b \in {n}, from \in {first}, to \in {last}, c \in {carry} })

\* m + n, and m - n for m >= n
Add(m, n) ==
    The({ IF a = <<>> THEN b
          ELSE IF b = <<>> THEN a
          ELSE The({ Trim(<<sum.carry>> \o sum.digits)
                     : sum \in { PlaceSum(a, b, 1, 1,
                                          IF Len(a) > Len(b) THEN Len(a) ELSE Len(b), 0) } })
          : a \in {m}, b \in {n} })

Sub(m, n) ==
    The({ IF b = <<>> THEN a ELSE Trim(PlaceSum(a, b, -1, 1, Len(a), 0).digits)
          : a \in {m}, b \in {n} })

\* n + 1: the last digit that is not 9 goes up and the 9s after it become 0
Succ(n) ==
    The({ The({ IF last = 0 THEN <<1>> \o [i \in DOMAIN a |-> 0]
                ELSE [i \in DOMAIN a |->
                         IF i < last THEN a[i] ELSE IF i = last THEN a[i] + 1 ELSE 0]
                : last \in { CHOOSE i \in 0..Len(a) :
                                /\ i = 0 \/ a[i] # 9
                                /\ \A j \in (i + 1)..Len(a) : a[j] = 9 } })
          : a \in {n} })

\* the digit characters of a natural number
Chars(n) == IF n = <<>> THEN <<"0">> ELSE [i \in DOMAIN n |-> DigitChars[n[i] + 1]]

FloatNaN == [kind |-> "nan", neg |-> FALSE, mant |-> <<>>, exp |-> 0]
FloatInfinity(negative) == [kind |-> "inf", neg |-> negative, mant |-> <<>>, exp |-> 0]
FloatZero(negative) == [kind |-> "num", neg |-> negative, mant |-> <<>>, exp |-> 0]

\* mant * 2^exp with mant halved until it is odd, count times at most: a few
\* times first, then the rest
RECURSIVE Stripped(_, _)
Stripped(number, count) ==
    IF Odd(number.mant) THEN number
    ELSE IF count = 1
    THEN [number EXCEPT !.mant = Half(number.mant), !.exp = number.exp + 1]
    ELSE The({ Stripped(c, count - (count + 7) \div 8)
               : c \in {Stripped(number, (count + 7) \div 8)} })

\* mant * 2^exp for mant of at most 2^53, as the one record that stands for
\* the number
Canonical(negative, mant, exp) ==
    IF mant = <<>> THEN FloatZero(negative)
    ELSE IF exp = 0 /\ Len(mant) <= 15
    THEN [kind |-> "num", neg |-> negative, mant |-> mant, exp |-> 0]
    ELSE The({ The({ IF whole # <<>> /\ Len(whole) <= 15
                     THEN [c EXCEPT !.mant = whole, !.exp = 0] ELSE c
                     : whole \in { IF 0 < c.exp /\ c.exp < 50 /\ Len(c.mant) <= 15
                                   THEN Doubled(c.mant, c.exp) ELSE <<>> } })
               : c \in { Stripped([kind |-> "num", neg |-> negative, mant |-> mant,
                                   exp |-> exp], 53) } })

\* a lower and an upper estimate of the binary logarithm of 10^d
Log2Pow10Low(d) ==
    IF d >= 0 THEN (d * 33219) \div 10000 ELSE -(((-d) * 3322 + 999) \div 1000)
Log2Pow10High(d) == -Log2Pow10Low(-d)

\* the divisor doubled until num is less than twice it, and how often
RECURSIVE Fit(_, _, _)
Fit(num, den, times) ==
    The({ IF Less(n, Twice(d)) THEN [num |-> n, den |-> d, t |-> t]
          ELSE Fit(n, Twice(d), t + 1)
          : n \in {num}, d \in {den}, t \in {times} })

\* one more bit of the quotient: the remainder doubles and the divisor is
\* taken from it if it can be
QuotientStep(st) ==
    The({ IF Less(r, st.d)
          THEN [q |-> q, r |-> r, d |-> st.d, left |-> st.left - 1]
          ELSE [q |-> Succ(q), r |-> Sub(r, st.d), d |-> st.d, left |-> st.left - 1]
          : q \in {Twice(st.q)}, r \in {Twice(st.r)} })

\* count more bits of the quotient, until none is left to take or the
\* remainder is 0
RECURSIVE Quotient(_, _)
Quotient(state, count) ==
    The({ IF st.left = 0 \/ st.r = <<>> THEN st
          ELSE IF count = 1 THEN QuotientStep(st)
          ELSE Quotient(Quotient(st, count \div 2), count - count \div 2)
          : st \in {state} })

\* the double nearest to (num / den) * 2^top for den <= num < 2 * den, the
\* even one of two equally near: 53 bits of the quotient, fewer below
\* 2^-1022, and an infinity from 2^1024 on
Rounded(negative, num, den, top) ==
    LET bits == IF top >= -1022 THEN 53 ELSE top + 1075 IN
    IF top > 1023 THEN FloatInfinity(negative)
    ELSE IF bits < 0 THEN FloatZero(negative)
    ELSE IF bits = 0
    THEN (IF num = den THEN FloatZero(negative)
          ELSE [kind |-> "num", neg |-> negative, mant |-> <<1>>, exp |-> -1074])
    ELSE The({ The({ IF c.mant = <<1>> /\ c.exp = 1024 THEN FloatInfinity(negative) ELSE c
                     : c \in { The({ Canonical(negative, q, top - bits + 1 + st.left)
                                     : q \in { The({ IF /\ st.r # <<>>
                                                        /\ \/ Less(st.d, r)
                                                           \/ r = st.d /\ Odd(st.q)
                                                     THEN Succ(st.q) ELSE st.q
                                                     : r \in {Twice(st.r)} }) } }) } })
               : st \in { Quotient([q |-> <<1>>, r |-> Sub(num, den), d |-> den,
                                    left |-> bits - 1], bits) } })

\* the double nearest to (num / den) * 2^e.  A natural number of at most 15
\* digits is below 2^53: over a power of ten that leaves a binary fraction
\* of it, the number is a double itself, and nothing is rounded
Nearest(negative, num, den, e) ==
    The({ IF n = <<>> THEN FloatZero(negative)
          ELSE The({ IF Len(m) >= Len(d) /\ \A i \in (Len(m) - Len(d) + 2)..Len(m) : m[i] = 0
                     THEN Canonical(negative, SubSeq(m, 1, Len(m) - Len(d) + 1),
                                    e - Len(d) + 1)
                     ELSE LET t == Log2Pow10Low(Len(n) - Len(d) - 1) IN
                          The({ Rounded(negative, f.num, f.den, f.t + e)
                                : f \in { Fit(Doubled(n, -t), Doubled(d, t), t) } })
                     : m \in { IF /\ Len(n) <= 15 /\ Len(d) <= 16 /\ -1000 <= e /\ e <= 900
                                 /\ d = <<1>> \o Repeat(0, Len(d) - 1)
                              THEN Doubled(n, Len(d) - 1) ELSE <<>> } })
          : n \in {num}, d \in {den} })

\* the double nearest to digits * 10^q; beyond 10^310 it is an infinity and
\* below 10^-325 it is 0 whatever the digits are
FromDecimal(negative, digits, q) ==
    The({ IF c = <<>> THEN FloatZero(negative)
          ELSE IF Len(c) + q > 310 THEN FloatInfinity(negative)
          ELSE IF Len(c) + q < -325 THEN FloatZero(negative)
          ELSE Nearest(negative, c \o Repeat(0, IF q > 0 THEN q ELSE 0),
                       <<1>> \o Repeat(0, IF q < 0 THEN -q ELSE 0), 0)
          : c \in {Trim(digits)} })

\* a + b: the double nearest to the exact sum; a term below 2^-64 of the
\* other does not change it
FloatAdd(left, right) ==
    The({ IF a.kind = "nan" \/ b.kind = "nan" THEN FloatNaN
          ELSE IF a.kind = "inf" /\ b.kind = "inf"
          THEN (IF a.neg = b.neg THEN a ELSE FloatNaN)
          ELSE IF a.kind = "inf" THEN a
          ELSE IF b.kind = "inf" THEN b
          ELSE IF a.mant = <<>> /\ b.mant = <<>> THEN FloatZero(a.neg /\ b.neg)
          ELSE IF a.mant = <<>> THEN b
          ELSE IF b.mant = <<>> THEN a
          ELSE IF (a.exp + Log2Pow10Low(Len(a.mant) - 1))
                  - (b.exp + Log2Pow10High(Len(b.mant))) > 64 THEN a
          ELSE IF (b.exp + Log2Pow10Low(Len(b.mant) - 1))
                  - (a.exp + Log2Pow10High(Len(a.mant))) > 64 THEN b
          ELSE LET low == IF a.exp < b.exp THEN a.exp ELSE b.exp IN
               The({ IF a.neg # b.neg /\ x = y THEN FloatZero(FALSE)
                     ELSE Nearest(IF Less(x, y) THEN b.neg ELSE a.neg,
                                  IF a.neg = b.neg THEN Add(x, y)
                                  ELSE Sub(IF Less(x, y) THEN y ELSE x,
                                           IF Less(x, y) THEN x ELSE y),
                                  <<1>>, low)
                     : x \in {Doubled(a.mant, a.exp - low)},
                       y \in {Doubled(b.mant, b.exp - low)} })
          : a \in {left}, b \in {right} })

\* the digits of s from position from up to before position to
Digits(s, from, to) == [i \in 1..(to - from) |-> DigitValue(s[from + i - 1])]

\* the digits from position i on as an exponent; an exponent of 8 digits is
\* beyond every number and is not read further
RECURSIVE ExponentRun(_, _, _)
ExponentRun(s, i, acc) ==
    IF i <= Len(s) /\ IsDigit(s[i]) /\ acc < 10000000
    THEN ExponentRun(s, i + 1, DecimalRadix * acc + DigitValue(s[i]))
    ELSE acc

\* the digits from j with the point at intEnd and a fraction up to fracEnd,
\* then the exponent part if there is one: e or E, an optional sign and at
\* least one digit
ParseDecimal(s, negative, j, intEnd, hasPoint, fracEnd) ==
    LET expSigned == fracEnd + 1 <= Len(s) /\ s[fracEnd + 1] \in {"-", "+"}
        expStart == IF expSigned THEN fracEnd + 2 ELSE fracEnd + 1
        hasExp == /\ fracEnd <= Len(s) /\ s[fracEnd] \in {"e", "E"}
                  /\ expStart <= Len(s) /\ IsDigit(s[expStart])
    IN  IF ~(intEnd > j \/ (hasPoint /\ fracEnd > intEnd + 1)) THEN FloatNaN
        ELSE FromDecimal(negative,
                         Digits(s, j, intEnd)
                             \o (IF hasPoint THEN Digits(s, intEnd + 1, fracEnd) ELSE <<>>),
                         (IF ~hasExp THEN 0
                          ELSE IF s[fracEnd + 1] = "-" THEN -ExponentRun(s, expStart, 0)
                          ELSE ExponentRun(s, expStart, 0))
                             - (IF hasPoint THEN fracEnd - (intEnd + 1) ELSE 0))

\* Infinity, or a decimal with its integer digits from j up to intEnd
ParseUnsigned(s, negative, j, intEnd) ==
    IF StartsWithAt(s, j, <<"I", "n", "f", "i", "n", "i", "t", "y">>)
    THEN FloatInfinity(negative)
    ELSE The({ The({ ParseDecimal(s, negative, j, intEnd, hasPoint, fracEnd)
                     : fracEnd \in { IF hasPoint THEN RunEnd(s, intEnd + 1, DecimalChars)
                                     ELSE intEnd } })
               : hasPoint \in { intEnd <= Len(s) /\ s[intEnd] = "." } })

\* parseFloat(s): leading white space, an optional sign, then Infinity or
\* digits with an optional fraction and an optional exponent part; what
\* follows the number is ignored
ParseFloat(string) ==
    The({ The({ The({ ParseUnsigned(s, j > i /\ s[i] = "-", j, intEnd)
                      : intEnd \in {RunEnd(s, j, DecimalChars)} })
                : j \in { IF i <= Len(s) /\ s[i] \in {"-", "+"} THEN i + 1 ELSE i } })
          : s \in {string}, i \in {SkipWhiteSpace(string, 1)} })

\* the decimal digits of mant * 2^exp and where its point is: the number is
\* 0.digits * 10^point exactly
Expansion(mant, exp) ==
    The({ [digits |-> StripZeros(ds), point |-> Len(ds) + (IF exp < 0 THEN exp ELSE 0)]
          : ds \in { IF exp >= 0 THEN Doubled(mant, exp) ELSE Fived(mant, -exp) } })

\* the decimal 0.digits * 10^point is read as the number a
ReadsAs(digits, point, a) ==
    FromDecimal(FALSE, digits, point - Len(digits)) = [a EXCEPT !.neg = FALSE]

\* the first k digits of the expansion, or one more than them, are read as
\* the number a
ReadsAsRounded(a, ex, k, up) ==
    The({ ReadsAs(c, ex.point + Len(c) - k, a)
          : c \in { IF up THEN Succ(SubSeq(ex.digits, 1, k)) ELSE SubSeq(ex.digits, 1, k) } })

\* whether the first k digits (FALSE) and one more than them (TRUE) are read
\* as the number a
ReadBack(a, ex, k) == { up \in BOOLEAN : ReadsAsRounded(a, ex, k, up) }

\* of the first k digits and one more than them, those that are read as the
\* number a: the nearer if both are, the even of two equally near
RoundedTo(ex, k, reads) ==
    IF k >= Len(ex.digits) THEN ex
    ELSE The({ LET rest == SubSeq(ex.digits, k + 1, Len(ex.digits))
                   upper == \/ rest[1] > 5
                            \/ rest[1] = 5 /\ (Len(rest) > 1 \/ Odd(low))
               IN  IF TRUE \in reads /\ (upper \/ FALSE \notin reads)
                   THEN [digits |-> StripZeros(high), point |-> ex.point + Len(high) - k]
                   ELSE [digits |-> low, point |-> ex.point]
               : low \in {SubSeq(ex.digits, 1, k)},
                 high \in {Succ(SubSeq(ex.digits, 1, k))} })

\* the fewest digits, first..last of them, that are read as the number a;
\* more digits than that are read as it too
RECURSIVE FewestDigits(_, _, _, _)
FewestDigits(a, expansion, first, last) ==
    The({ The({ IF from >= to THEN RoundedTo(ex, to, reads)
                ELSE IF reads # {} THEN FewestDigits(a, ex, from, mid)
                ELSE FewestDigits(a, ex, mid + 1, to)
                : reads \in { ReadBack(a, ex, IF from >= to THEN to ELSE mid) } })
          : ex \in {expansion}, from \in {first}, to \in {last},
            mid \in {(first + last) \div 2} })

\* the digits Number.prototype.toString writes: the exact digits when there
\* are at most 15, which no fewer digits are read as, else the fewest that
\* are read as the number, which 17 always are
Shortest(a) ==
    The({ IF Len(ex.digits) <= 15 THEN ex
          ELSE FewestDigits(a, ex, 1, IF Len(ex.digits) < 17 THEN Len(ex.digits) ELSE 17)
          : ex \in {Expansion(a.mant, a.exp)} })

\* the digits ds of a number other than 0 with the point after the first n:
\* written out up to 1e21 and from 1e-6, else d.ddde+x
DigitsToString(ds, k, n) ==
    IF k <= n /\ n <= 21 THEN ds \o Repeat("0", n - k)
    ELSE IF 0 < n /\ n <= 21
    THEN SubSeq(ds, 1, n) \o <<".">> \o SubSeq(ds, n + 1, k)
    ELSE IF -6 < n /\ n <= 0
    THEN <<"0", ".">> \o Repeat("0", -n) \o ds
    ELSE (IF k = 1 THEN ds ELSE <<ds[1], ".">> \o SubSeq(ds, 2, k))
         \o <<"e">> \o (IF n - 1 < 0 THEN <<"-">> ELSE <<"+">>)
         \o NatToString(IF n - 1 < 0 THEN 1 - n ELSE n - 1)

\* Number.prototype.toString, also what a template literal writes
FloatToString(number) ==
    The({ IF a.kind = "nan" THEN <<"N", "a", "N">>
          ELSE IF a.kind = "inf"
          THEN (IF a.neg THEN <<"-">> ELSE <<>>)
               \o <<"I", "n", "f", "i", "n", "i", "t", "y">>
          ELSE IF a.mant = <<>> THEN <<"0">>
          ELSE The({ (IF a.neg THEN <<"-">> ELSE <<>>)
                     \o DigitsToString(Chars(sh.digits), Len(sh.digits), sh.point)
                     : sh \in {Shortest(a)} })
          : a \in {number} })

\* the integer nearest to mant * 2^exp, the larger of two equally near ones
NearestInteger(mant, exp) ==
    IF exp >= 0 THEN Doubled(mant, exp)
    ELSE IF -exp > 4 * Len(mant) + 1 THEN <<>>
    ELSE The({ IF Odd(h) THEN Succ(Half(h)) ELSE Half(h)
               : h \in {Halved(mant, -exp - 1)} })

\* Number.prototype.toFixed(0): the nearest integer with the sign written
\* first; from 1e21 on, and for NaN and the infinities, what toString writes
ToFixed0(number) ==
    The({ The({ IF a.kind # "num" \/ Len(n) > 21 THEN FloatToString(a)
                ELSE (IF a.neg /\ a.mant # <<>> THEN <<"-">> ELSE <<>>) \o Chars(n)
                : n \in { IF a.kind = "num" THEN NearestInteger(a.mant, a.exp) ELSE <<>> } })
          : a \in {number} })

\* the number an integer literal of the code denotes
Num(n) ==
    The({ FromDecimal(n < 0, Digits(ds, 1, Len(ds) + 1), 0)
          : ds \in {NatToString(IF n < 0 THEN -n ELSE n)} })

\* parseInt(s, 10): leading white space, an optional sign, then the digits
ParseInt(string) ==
    The({ The({ IF j > Len(s) \/ ~IsDigit(s[j]) THEN FloatNaN
                ELSE FromDecimal(j > i /\ s[i] = "-",
                                 Digits(s, j, RunEnd(s, j, DecimalChars)), 0)
                : j \in { IF i <= Len(s) /\ s[i] \in {"-", "+"} THEN i + 1 ELSE i } })
          : s \in {string}, i \in {SkipWhiteSpace(string, 1)} })

(***************************************************************************)
(* A script is kept as the sequence of the pieces the code appends, each   *)
(* with the kind of command it is and the input item that caused it; the   *)
(* string the code returns is the concatenation of the pieces' text.       *)
(***************************************************************************)
Seg(kind, src, text) == [kind |-> kind, src |-> src, text |-> text]
ScriptText(segs) == Flatten([i \in DOMAIN segs |-> segs[i].text])

\* `\x02L\rD11\r`
StartOfLabel == Seg("start", 0, <<STX, "L", CR>>)
ConfigCommand == Seg("config", 0, <<"D", "1", "1", CR>>)
\* `E\r`
EndOfLabel == Seg("end", 0, <<"E", CR>>)

\* the template literal that assembles the script convert returns
AssembleConvert(storage, layoutScript) ==
    <<StartOfLabel, ConfigCommand>> \o storage \o layoutScript \o <<EndOfLabel>>

(***************************************************************************)
(* ZplToDplConverter.convert                                               *)
(***************************************************************************)
NoMatch == [ok |-> FALSE]

\* one attempt of /\~DG(\w+),\d+,\d+,([A-Za-z0-9\n\r]+)/ at index i
MatchDg(s, i) ==
    IF ~StartsWithAt(s, i, <<"~", "D", "G">>) THEN NoMatch
    ELSE LET n1 == i + 3
             n2 == RunEnd(s, n1, WordChars)
             d1 == n2 + 1
             d2 == RunEnd(s, d1, DecimalChars)
             e1 == d2 + 1
             e2 == RunEnd(s, e1, DecimalChars)
             p1 == e2 + 1
             p2 == RunEnd(s, p1, DataChars)
         IN  IF /\ n2 > n1 /\ StartsWithAt(s, n2, <<",">>)
                /\ d2 > d1 /\ StartsWithAt(s, d2, <<",">>)
                /\ e2 > e1 /\ StartsWithAt(s, e2, <<",">>)
                /\ p2 > p1
             THEN [ok |-> TRUE, index |-> i, name |-> Slice(s, n1, n2 - 1),
                   data |-> Slice(s, p1, p2 - 1), end |-> p2]
             ELSE NoMatch

\* zplCode.matchAll(dgRegex): the matches from left to right, none overlapping
RECURSIVE MatchAllDg(_, _)
MatchAllDg(s, i) ==
    IF i > Len(s) THEN <<>>
    ELSE LET m == MatchDg(s, i) IN
         IF m.ok THEN <<m>> \o MatchAllDg(s, m.end) ELSE MatchAllDg(s, i + 1)

\* the body of the ~DG loop for one match: the store-image command, or the
\* error decompressZplAsciiHex throws, which the loop does not catch
StoreImage(m, k) ==
    LET hex == decompressZplAsciiHex(StripLineBreaks(m.data)) IN
    IF hex.status = "throw" THEN hex
    ELSE Returned(<<Seg("store", k, <<"I", "D">> \o m.name \o <<CR>> \o hex.value \o <<CR>>)>>)

RECURSIVE DgLoop(_, _, _)
DgLoop(matches, k, storage) ==
    IF k > Len(matches) THEN Returned(storage)
    ELSE LET st == StoreImage(matches[k], k) IN
         IF st.status = "throw" THEN st
         ELSE DgLoop(matches, k + 1, storage \o st.value)

\* the first index >= i where lit starts, 0 when there is none
RECURSIVE Find(_, _, _)
Find(s, lit, i) ==
    IF i + Len(lit) - 1 > Len(s) THEN 0
    ELSE IF StartsWithAt(s, i, lit) THEN i
    ELSE Find(s, lit, i + 1)

\* zplCode.match(/\^XA([\s\S]*?)\^XZ/): group 1, when the label block is there
LabelFormatMatch(s) ==
    LET a == Find(s, <<"^", "X", "A">>, 1)
        z == IF a = 0 THEN 0 ELSE Find(s, <<"^", "X", "Z">>, a + 3)
    IN  IF a = 0 \/ z = 0 THEN NoMatch
        ELSE [ok |-> TRUE, labelContent |-> Slice(s, a + 3, z - 1)]

\* one attempt of /\^([A-Z0-9]{2})([^~^]*?)(?=\^|$)/ at index i
MatchCommand(s, i) ==
    IF /\ i + 2 <= Len(s) /\ s[i] = "^"
       /\ s[i + 1] \in OpcodeChars /\ s[i + 2] \in OpcodeChars
    THEN LET e == RunUntil(s, i + 3, ParamStops) IN
         IF e <= Len(s) /\ s[e] = "~" THEN NoMatch
         ELSE [ok |-> TRUE, index |-> i, command |-> Slice(s, i + 1, i + 2),
               params |-> Slice(s, i + 3, e - 1), end |-> e]
    ELSE NoMatch

\* [...labelContent.matchAll(zplCommandRegex)]
RECURSIVE MatchAllCommands(_, _)
MatchAllCommands(s, i) ==
    IF i > Len(s) THEN <<>>
    ELSE LET m == MatchCommand(s, i) IN
         IF m.ok THEN <<m>> \o MatchAllCommands(s, m.end) ELSE MatchAllCommands(s, i + 1)

PositionWidth == 4
TextPrefix == <<"1", "2", "1", "1", "0", "0", "0">>
OpFO == <<"F", "O">>
OpFD == <<"F", "D">>
OpBC == <<"B", "C">>
OpGB == <<"G", "B">>
OpXG == <<"X", "G">>

\* commands.find(c => c.index > match.index && c[1] === 'FD'): its place, or 0
NextFdAdjacent(commands, k) ==
    IF k + 1 <= Len(commands) /\ commands[k + 1].command = OpFD THEN k + 1 ELSE 0
NextFd(commands, k) ==
    LET later == { j \in DOMAIN commands :
                     commands[j].index > commands[k].index /\ commands[j].command = OpFD }
    IN  IF later = {} THEN 0 ELSE CHOOSE j \in later : \A j2 \in later : j <= j2

\* case 'FD': `1211000${lastY}${lastX}${params}\r`
TextCommandXFirst(params, lastX, lastY, k) ==
    Seg("text", k, TextPrefix \o lastX \o lastY \o params \o <<CR>>)
TextCommand(params, lastX, lastY, k) ==
    Seg("text", k, TextPrefix \o lastY \o lastX \o params \o <<CR>>)

\* case 'GB'
BoxCommand(params, lastX, lastY, k) ==
    LET parts == Split(params, ",")
        width == ParseInt(parts[1])
        height == IF Len(parts) >= 2 THEN ParseInt(parts[2]) ELSE FloatNaN
        thickness == IF Len(parts) >= 3 THEN ParseInt(parts[3]) ELSE Num(1)
        xEnd == PadStart(FloatToString(FloatAdd(ParseInt(lastX), width)), PositionWidth, "0")
        yEnd == PadStart(FloatToString(FloatAdd(ParseInt(lastY), height)), PositionWidth, "0")
    IN  Seg("box", k, <<"E">> \o lastY \o <<",">> \o lastX \o <<",">> \o yEnd \o <<",">>
                       \o xEnd \o <<",">> \o FloatToString(thickness) \o <<",">>
                       \o FloatToString(thickness) \o <<CR>>)

\* case 'XG': params.split(':')[1]?.split(',')[0], the empty string when undefined
RecallName(params) ==
    LET byColon == Split(params, ":") IN
    IF Len(byColon) < 2 THEN <<>> ELSE Split(byColon[2], ",")[1]

\* the switch: what one command other than FO appends to layoutScript
EmitTextOnce(commands, k, lastX, lastY) ==
    LET command == commands[k].command
        params == commands[k].params
    IN  IF command = OpFD
        THEN IF \E b \in 1..(k - 1) : commands[b].command = OpBC /\ NextFd(commands, b) = k
             THEN <<>>
             ELSE <<TextCommand(params, lastX, lastY, k)>>
        ELSE IF command = OpBC
        THEN IF NextFd(commands, k) # 0
             THEN <<Seg("barcode", k, <<"B", "C">> \o lastY \o lastX
                                      \o commands[NextFd(commands, k)].params \o <<CR>>)>>
             ELSE <<>>
        ELSE IF command = OpGB
        THEN <<BoxCommand(params, lastX, lastY, k)>>
        ELSE IF command = OpXG
        THEN IF RecallName(params) # <<>>
             THEN <<Seg("recall", k, <<"Y">> \o lastY \o <<",">> \o lastX \o <<",">>
                                      \o RecallName(params) \o <<CR>>)>>
             ELSE <<>>
        ELSE <<>>
Emit(commands, k, lastX, lastY) ==
    LET command == commands[k].command
        params == commands[k].params
    IN  IF command = OpFD
        THEN <<TextCommand(params, lastX, lastY, k)>>
        ELSE IF command = OpBC
        THEN IF NextFd(commands, k) # 0
             THEN <<Seg("barcode", k, <<"B", "C">> \o lastY \o lastX
                                      \o commands[NextFd(commands, k)].params \o <<CR>>)>>
             ELSE <<>>
        ELSE IF command = OpGB
        THEN <<BoxCommand(params, lastX, lastY, k)>>
        ELSE IF command = OpXG
        THEN IF RecallName(params) # <<>>
             THEN <<Seg("recall", k, <<"Y">> \o lastY \o <<",">> \o lastX \o <<",">>
                                      \o RecallName(params) \o <<CR>>)>>
             ELSE <<>>
        ELSE <<>>

\* the for loop over the commands; FO with no second parameter throws, since
\* params.split(',')[1] is undefined
RECURSIVE CommandLoopCursorReset(_, _, _, _, _)
CommandLoopCursorReset(commands, k, lastX, lastY, layoutScript) ==
    IF k > Len(commands) THEN Returned(layoutScript)
    ELSE IF commands[k].command = OpFO
    THEN LET parts == Split(commands[k].params, ",") IN
         IF Len(parts) < 2 THEN Thrown("TypeError")
         ELSE CommandLoopCursorReset(commands, k + 1, PadStart(parts[1], PositionWidth, "0"),
                                     PadStart(parts[2], PositionWidth, "0"), layoutScript)
    ELSE CommandLoopCursorReset(commands, k + 1, <<"0", "0", "0", "0">>, <<"0", "0", "0", "0">>,
                                layoutScript \o Emit(commands, k, lastX, lastY))
RECURSIVE CommandLoop(_, _, _, _, _)
CommandLoop(commands, k, lastX, lastY, layoutScript) ==
    IF k > Len(commands) THEN Returned(layoutScript)
    ELSE IF commands[k].command = OpFO
    THEN LET parts == Split(commands[k].params, ",") IN
         IF Len(parts) < 2 THEN Thrown("TypeError")
         ELSE CommandLoop(commands, k + 1, PadStart(parts[1], PositionWidth, "0"),
                          PadStart(parts[2], PositionWidth, "0"), layoutScript)
    ELSE CommandLoop(commands, k + 1, lastX, lastY,
                     layoutScript \o Emit(commands, k, lastX, lastY))

InitialPosition == <<"0", "0", "0", "0">>

LayoutPass(code) ==
    LET lm == LabelFormatMatch(code) IN
    IF ~lm.ok THEN Returned(<<>>)
    ELSE CommandLoop(MatchAllCommands(lm.labelContent, 1), 1,
                     InitialPosition, InitialPosition, <<>>)

convert(code) ==
    LET images == DgLoop(MatchAllDg(code, 1), 1, <<>>) IN
    IF images.status = "throw" THEN images
    ELSE LET layout == LayoutPass(code) IN
         IF layout.status = "throw" THEN layout
         ELSE Returned(AssembleConvert(images.value, layout.value))

(***************************************************************************)
(* Positions of the layout path.                                           *)
(***************************************************************************)
\* DplLayoutPrinterService.toDplPosition
toDplPositionUnpadded(value) == ToFixed0(ParseFloat(value))
toDplPosition(value) == PadStart(ToFixed0(ParseFloat(value)), PositionWidth, "0")

(***************************************************************************)
(* imageToMonochromeBitmap                                                 *)
(***************************************************************************)
Threshold == 128
Channels == 4

\* getImageData throws IndexSizeError for a canvas with no pixels; otherwise a
\* pixel is ink (1) when the mean of its red, green and blue is below threshold
imageToMonochromeBitmap(image) ==
    IF image.width = 0 \/ image.height = 0 THEN Thrown("IndexSizeError")
    ELSE Returned([width |-> image.width, height |-> image.height,
                   data |-> [j \in 1..(Len(image.data) \div Channels) |->
                               IF image.data[Channels * (j - 1) + 1]
                                  + image.data[Channels * (j - 1) + 2]
                                  + image.data[Channels * (j - 1) + 3] < 3 * Threshold
                               THEN 1 ELSE 0]])

(***************************************************************************)
(* DplLayoutPrinterService.print, in its three versions:                   *)
(*   "v1"  part_000 lines 119-226 (image pass, header written twice)       *)
(*   "v2"  part_000 lines 249-337 (no image pass)                          *)
(*   "v3"  part_001 lines 12-89   (the current one)                        *)
(* A design item is [tagName, style, attrs]; an absent attribute is absent *)
(* from attrs, an absent style is the empty string.                        *)
(***************************************************************************)
HasAttr(item, name) == name \in DOMAIN item.attrs
\* element.getAttribute(name) || fallback
AttrOr(item, name, fallback) ==
    IF HasAttr(item, name) /\ item.attrs[name] # <<>> THEN item.attrs[name] ELSE fallback

\* element.tagName.toLowerCase()
TagName(item) == ToLowerCase(item.tagName)

TagText == <<"z","p","l","-","t","e","x","t">>
TagBarcode == <<"z","p","l","-","b","a","r","c","o","d","e">>
TagBox == <<"z","p","l","-","g","r","a","p","h","i","c","-","b","o","x">>
TagCircle == <<"z","p","l","-","g","r","a","p","h","i","c","-","c","i","r","c","l","e">>
TagLine ==
    <<"z","p","l","-","g","r","a","p","h","i","c","-",
      "d","i","a","g","o","n","a","l","-","l","i","n","e">>
TagImage == <<"z","p","l","-","i","m","a","g","e">>
QrCode == <<"q","r","c","o","d","e">>

\* the first pass loads item i: a zpl-image with a non-empty src
NeedsLoad(item) == TagName(item) = TagImage /\ AttrOr(item, "src", <<>>) # <<>>

\* the name given to the image of an item: its image-name, else IMG + random
ImageNames(item, randomSuffixes) ==
    IF AttrOr(item, "image-name", <<>>) # <<>> THEN {item.attrs["image-name"]}
    ELSE { <<"I", "M", "G">> \o r : r \in randomSuffixes }

\* imageStorageScript += `ID${imageName}\r${dplHexData}\r`
StoreCommand(i, imageName, dplHexData) ==
    Seg("store", i, <<"I", "D">> \o imageName \o <<CR>> \o dplHexData \o <<CR>>)

\* case 'zpl-graphic-box' and case 'zpl-graphic-diagonal-line'
EndPosition(start, size) ==
    toDplPosition(FloatToString(FloatAdd(ParseFloat(start), ParseFloat(size))))
Thickness(item) == FloatToString(ParseFloat(AttrOr(item, "thickness", <<"1">>)))

\* case 'zpl-image' of the second pass: v2 recalls by image-name or IMG001,
\* v1 and v3 recall the name the data-dpl-name attribute holds, if any
RecallCommand(ver, item, i, x, y, dplName) ==
    IF ver = "v2"
    THEN <<Seg("recall", i, <<"Y">> \o y \o <<",">> \o x \o <<",">>
                             \o AttrOr(item, "image-name", <<"I","M","G","0","0","1">>)
                             \o <<CR>>)>>
    ELSE IF dplName # <<>>
    THEN <<Seg("recall", i, <<"Y">> \o y \o <<",">> \o x \o <<",">> \o dplName \o <<CR>>)>>
    ELSE <<>>

\* the switch of the second pass: what item i appends to the layout
LayoutCommand(ver, item, i, dplName) ==
    The({ IF tagName = TagText
          THEN <<Seg("text", i, TextPrefix \o y \o x \o AttrOr(item, "text", <<>>) \o <<CR>>)>>
          ELSE IF tagName = TagBarcode
          THEN IF HasAttr(item, "type") /\ ToLowerCase(item.attrs["type"]) = QrCode
               THEN <<Seg("barcode", i, <<"B", " ", "Q", ",", "M", ",", "S", "7">> \o y \o <<",">>
                                        \o x \o <<",", "d", "2", ",">>
                                        \o AttrOr(item, "data", <<>>) \o <<CR>>)>>
               ELSE <<Seg("barcode", i, <<"B">> \o AttrOr(item, "type", <<"C">>) \o y \o x
                                        \o AttrOr(item, "data", <<>>) \o <<CR>>)>>
          ELSE IF tagName = TagBox
          THEN The({ <<Seg("box", i, <<"E">> \o y \o <<",">> \o x \o <<",">>
                                     \o EndPosition(y, item.style.height) \o <<",">>
                                     \o EndPosition(x, item.style.width) \o <<",">>
                                     \o thickness \o <<",">> \o thickness \o <<CR>>)>>
                     : thickness \in {Thickness(item)} })
          ELSE IF tagName = TagCircle
          THEN <<Seg("circle", i, <<"C">> \o y \o <<",">> \o x \o <<",">>
                                  \o FloatToString(ParseFloat(item.style.width)) \o <<",">>
                                  \o Thickness(item) \o <<CR>>)>>
          ELSE IF tagName = TagLine
          THEN <<Seg("line", i, <<"X">> \o y \o <<",">> \o x \o <<",">>
                                \o EndPosition(y, item.style.height) \o <<",">>
                                \o EndPosition(x, item.style.width) \o <<",">>
                                \o Thickness(item) \o <<CR>>)>>
          ELSE IF tagName = TagImage
          THEN RecallCommand(ver, item, i, x, y, dplName)
          ELSE <<>>
          : tagName \in {TagName(item)},
            x \in {toDplPosition(item.style.left)},
            y \in {toDplPosition(item.style.top)} })

KnownTags == {TagText, TagBarcode, TagBox, TagCircle, TagLine, TagImage}

\* default: console.warn(`Unsupported element type: ${tagName}`), in v1 and v2;
\* the switch of v3 has no default case
LayoutWarning(ver, item, i) ==
    IF TagName(item) \notin KnownTags /\ ver \in {"v1", "v2"}
    THEN <<[level |-> "warn", src |-> i, error |-> "Unsupported element type"]>>
    ELSE <<>>

\* the second pass over all items, reading each element's data-dpl-name
RECURSIVE SecondPass(_, _, _, _)
SecondPass(ver, items, names, i) ==
    IF i > Len(items) THEN <<>>
    ELSE LayoutCommand(ver, items[i], i, names[i]) \o SecondPass(ver, items, names, i + 1)

RECURSIVE SecondPassLog(_, _, _)
SecondPassLog(ver, items, i) ==
    IF i > Len(items) THEN <<>>
    ELSE LayoutWarning(ver, items[i], i) \o SecondPassLog(ver, items, i + 1)

\* the script print returns, from the two accumulators
AssemblePrintLayoutFirst(ver, storage, layout) ==
    <<StartOfLabel, ConfigCommand>> \o layout \o storage \o <<EndOfLabel>>
AssemblePrint(ver, storage, layout) ==
    IF ver = "v1"
    THEN <<StartOfLabel, ConfigCommand>> \o storage
         \o (<<StartOfLabel, ConfigCommand>> \o layout) \o <<EndOfLabel>>
    ELSE IF ver = "v2"
    THEN (<<StartOfLabel, ConfigCommand>> \o layout) \o <<EndOfLabel>>
    ELSE <<StartOfLabel, ConfigCommand>> \o storage \o layout \o <<EndOfLabel>>

\* the index of the first item at or after i that the first pass loads, 0 if
\* none; v2 has no first pass
NextLoadLast(ver, items, i) ==
    LET later == { j \in i..Len(items) : NeedsLoad(items[j]) } IN
    IF ver = "v2" \/ later = {} THEN 0
    ELSE CHOOSE j \in later : \A j2 \in later : j2 <= j
RECURSIVE NextLoad(_, _, _)
NextLoad(ver, items, i) ==
    IF ver = "v2" \/ i > Len(items) THEN 0
    ELSE IF NeedsLoad(items[i]) THEN i
    ELSE NextLoad(ver, items, i + 1)

(***************************************************************************)
(* Inputs of the codec and of the raster encoder.                          *)
(***************************************************************************)
MaxPayloadLen == 3
MaxWidth == 9
MaxHeight == 2

\* a token of each range, a character that is both hex digit and lower case,
\* digits and an upper-case hex digit
PayloadAlphabet == {"G", "H", "g", "a", "0", "F"}
LiteralChars == {"0", "a", "F", "G", "h", "z"}

AllTokens == { c \in Range(UpperLetters) \cup Range(LowerLetters) : CountCharMap(c) # 0 }

Payloads ==
    SeqsUpTo(PayloadAlphabet, MaxPayloadLen)
    \cup { <<t, c>> : t \in AllTokens, c \in LiteralChars }

\* the rows a bitmap is drawn from: blank, full, one ink pixel, alternating
RowPatterns(w) ==
    { [x \in 1..w |-> 0], [x \in 1..w |-> 1], [x \in 1..w |-> x % 2] }
    \cup { [x \in 1..w |-> IF x = p THEN 1 ELSE 0] : p \in 1..w }

\* Uint8Array data in row-major order, as imageToMonochromeBitmap lays it out
Bitmaps ==
    UNION { { [width |-> w, height |-> h, data |-> Flatten(rows)] :
                rows \in [1..h -> RowPatterns(w)] } :
            w \in 0..MaxWidth, h \in 0..MaxHeight }

(***************************************************************************)
(* Inputs of convert: image payload blocks, then a label block of commands,*)
(* with or without its ^XA and ^XZ delimiters.                             *)
(***************************************************************************)
MaxImages == 2
MaxCommands == 3

\* ~DGA,1,1,G0H1
ImageRunLength == <<"~", "D", "G", "A", ",", "1", ",", "1", ",", "G", "0", "H", "1">>
\* ~DGB,2,2,a\nF
ImageLineBreak == <<"~", "D", "G", "B", ",", "2", ",", "2", ",", "a", LF, "F">>
\* ~DGC,1,1,0G
ImageDangling == <<"~", "D", "G", "C", ",", "1", ",", "1", ",", "0", "G">>
\* ^FO100,200
CmdPosition == <<"^", "F", "O", "1", "0", "0", ",", "2", "0", "0">>
\* ^FDHELLO
CmdText == <<"^", "F", "D", "H", "E", "L", "L", "O">>
\* ^FS
CmdSeparator == <<"^", "F", "S">>
\* ^BCN
CmdBarcode == <<"^", "B", "C", "N">>
\* ^GB10,20,2
CmdBox == <<"^", "G", "B", "1", "0", ",", "2", "0", ",", "2">>
\* ^XGR:A,1,1
CmdRecall == <<"^", "X", "G", "R", ":", "A", ",", "1", ",", "1">>
\* ^FO7
CmdPositionNoY == <<"^", "F", "O", "7">>

ImageBlocks == {ImageRunLength, ImageLineBreak, ImageDangling}
CommandFragments == {CmdPosition, CmdText, CmdSeparator, CmdBarcode, CmdBox, CmdRecall, CmdPositionNoY}
LabelStart == <<"^", "X", "A">>
LabelEnd == <<"^", "X", "Z">>

BuildCode(images, commands, framed) ==
    Flatten(images)
    \o (IF framed THEN LabelStart ELSE <<>>)
    \o Flatten(commands)
    \o (IF framed THEN LabelEnd ELSE <<>>)

ZplCodes ==
    { BuildCode(images, commands, framed) :
        images \in SeqsUpTo(ImageBlocks, MaxImages),
        commands \in SeqsUpTo(CommandFragments, MaxCommands),
        framed \in BOOLEAN }

(***************************************************************************)
(* Inputs of print: the placed elements, the images their sources load to, *)
(* the random suffixes Math.random yields.                                 *)
(***************************************************************************)
MaxItems == 2

\* <zpl-text style="left:7px;top:150px" text="HI">
ItemText ==
    [tagName |-> <<"Z", "P", "L", "-", "T", "E", "X", "T">>,
     style |-> [left |-> <<"7", "p", "x">>, top |-> <<"1", "5", "0", "p", "x">>, width |-> <<>>, height |-> <<>>],
     attrs |-> ("text" :> <<"H", "I">>)]
\* <zpl-barcode style="left:10px;top:20px" data="123">
ItemBarcode ==
    [tagName |-> <<"Z", "P", "L", "-", "B", "A", "R", "C", "O", "D", "E">>,
     style |-> [left |-> <<"1", "0", "p", "x">>, top |-> <<"2", "0", "p", "x">>, width |-> <<>>, height |-> <<>>],
     attrs |-> ("data" :> <<"1", "2", "3">>)]
\* <zpl-barcode style="left:10px;top:20px" type="QRCode" data="Q1">
ItemQrCode ==
    [tagName |-> <<"Z", "P", "L", "-", "B", "A", "R", "C", "O", "D", "E">>,
     style |-> [left |-> <<"1", "0", "p", "x">>, top |-> <<"2", "0", "p", "x">>, width |-> <<>>, height |-> <<>>],
     attrs |-> ("type" :> <<"Q", "R", "C", "o", "d", "e">>) @@ ("data" :> <<"Q", "1">>)]
\* <zpl-graphic-box style="left:10px;top:20px;width:30px;height:40.5px" thickness="2">
ItemBox ==
    [tagName |-> <<"Z", "P", "L", "-", "G", "R", "A", "P", "H", "I", "C", "-", "B", "O", "X">>,
     style |-> [left |-> <<"1", "0", "p", "x">>, top |-> <<"2", "0", "p", "x">>, width |-> <<"3", "0", "p", "x">>, height |-> <<"4", "0", ".", "5", "p", "x">>],
     attrs |-> ("thickness" :> <<"2">>)]
\* <zpl-graphic-circle style="left:10px;top:20px;width:50px;height:50px">
ItemCircle ==
    [tagName |-> <<"Z", "P", "L", "-", "G", "R", "A", "P", "H", "I", "C", "-", "C", "I", "R", "C", "L", "E">>,
     style |-> [left |-> <<"1", "0", "p", "x">>, top |-> <<"2", "0", "p", "x">>, width |-> <<"5", "0", "p", "x">>, height |-> <<"5", "0", "p", "x">>],
     attrs |-> <<>>]
\* <zpl-graphic-diagonal-line style="left:0px;top:0px;width:99px;height:5px" thickness="3">
ItemLine ==
    [tagName |-> <<"Z", "P", "L", "-", "G", "R", "A", "P", "H", "I", "C", "-", "D", "I", "A", "G", "O", "N", "A", "L", "-", "L", "I", "N", "E">>,
     style |-> [left |-> <<"0", "p", "x">>, top |-> <<"0", "p", "x">>, width |-> <<"9", "9", "p", "x">>, height |-> <<"5", "p", "x">>],
     attrs |-> ("thickness" :> <<"3">>)]
\* <zpl-image style="left:1px;top:2px" src="a.png" image-name="LOGO">
ItemImageNamed ==
    [tagName |-> <<"Z", "P", "L", "-", "I", "M", "A", "G", "E">>,
     style |-> [left |-> <<"1", "p", "x">>, top |-> <<"2", "p", "x">>, width |-> <<>>, height |-> <<>>],
     attrs |-> ("src" :> <<"a", ".", "p", "n", "g">>) @@ ("image-name" :> <<"L", "O", "G", "O">>)]
\* <zpl-image style="left:3px;top:4px" src="b.png">
ItemImageUnnamed ==
    [tagName |-> <<"Z", "P", "L", "-", "I", "M", "A", "G", "E">>,
     style |-> [left |-> <<"3", "p", "x">>, top |-> <<"4", "p", "x">>, width |-> <<>>, height |-> <<>>],
     attrs |-> ("src" :> <<"b", ".", "p", "n", "g">>)]
\* <zpl-image style="left:5px;top:6px" image-name="NONE">
ItemImageNoSrc ==
    [tagName |-> <<"Z", "P", "L", "-", "I", "M", "A", "G", "E">>,
     style |-> [left |-> <<"5", "p", "x">>, top |-> <<"6", "p", "x">>, width |-> <<>>, height |-> <<>>],
     attrs |-> ("image-name" :> <<"N", "O", "N", "E">>)]
\* <div style="left:8px;top:9px">
ItemUnknown ==
    [tagName |-> <<"D", "I", "V">>,
     style |-> [left |-> <<"8", "p", "x">>, top |-> <<"9", "p", "x">>, width |-> <<>>, height |-> <<>>],
     attrs |-> <<>>]

ItemKinds ==
    {ItemText, ItemBarcode, ItemQrCode, ItemBox,
     ItemCircle, ItemLine, ItemImageNamed, ItemImageUnnamed,
     ItemImageNoSrc, ItemUnknown}

\* a 3 x 1 image: grey 127 (ink), grey 128 (background), black (ink)
ImageThreshold ==
    [width |-> 3, height |-> 1,
     data |-> <<127, 127, 127, 255,  128, 128, 128, 255,  0, 0, 0, 255>>]
\* an image that loads but has no pixels
ImageEmpty == [width |-> 0, height |-> 0, data |-> <<>>]
Images == {ImageThreshold, ImageEmpty}

\* Math.random().toString(36).substring(2, 6).toUpperCase()
RandomSuffixes == {<<"0", "K", "7", "Q">>, <<"Z", "9", "X", "1">>}

Versions == {"v1", "v2", "v3"}
\* two calls of print over the same elements, the second started after the first
Calls == {1, 2}

(***************************************************************************)
(* The codec alone: a payload is drawn, decompressZplAsciiHex is applied.  *)
(***************************************************************************)
\* the button as the page shows it when no generation is under way, and as
\* the click handler sets it before it calls print
ButtonReady == [disabled |-> FALSE, textContent |-> "Print DPL"]
ButtonGeneratingEnabled == [disabled |-> FALSE, textContent |-> "Generating..."]
ButtonGenerating == [disabled |-> TRUE, textContent |-> "Generating..."]
ButtonIdle == button = ButtonReady /\ handler = 0

CodecIdle == zplData = <<>> /\ decompressResult = NotCalled
RasterIdle == bitmap = [width |-> 0, height |-> 0, data |-> <<>>] /\ hexResult = NotCalled
ConvertIdle == zplCode = <<>> /\ convertResult = NotCalled
PrintIdle ==
    /\ version = "v3"
    /\ designItems = <<>>
    /\ dataDplName = <<>>
    /\ argument = <<>>
    /\ pc = <<>>
    /\ loading = <<>>
    /\ pendingName = <<>>
    /\ imageStorageScript = <<>>
    /\ log = <<>>
    /\ printResult = <<>>
    /\ ButtonIdle

InitCodec ==
    /\ mode = "codec"
    /\ zplData \in Payloads
    /\ decompressResult = NotCalled
    /\ RasterIdle
    /\ ConvertIdle
    /\ PrintIdle

Decompress ==
    /\ mode = "codec"
    /\ decompressResult.status = "none"
    /\ decompressResult' = decompressZplAsciiHex(zplData)
    /\ UNCHANGED <<mode, zplData, rasterVars, convertVars, printVars, buttonVars>>

NextCodec == Decompress
SpecCodec == InitCodec /\ [][NextCodec]_vars

(***************************************************************************)
(* The raster encoder alone: a bitmap is drawn, bitmapToDplHex is applied. *)
(***************************************************************************)
InitRaster ==
    /\ mode = "raster"
    /\ bitmap \in Bitmaps
    /\ hexResult = NotCalled
    /\ CodecIdle
    /\ ConvertIdle
    /\ PrintIdle

Encode ==
    /\ mode = "raster"
    /\ hexResult.status = "none"
    /\ hexResult' = Returned(bitmapToDplHex(bitmap))
    /\ UNCHANGED <<mode, bitmap, codecVars, convertVars, printVars, buttonVars>>

NextRaster == Encode
SpecRaster == InitRaster /\ [][NextRaster]_vars

(***************************************************************************)
(* The text path: a source markup is drawn, convert is applied.            *)
(***************************************************************************)
InitConvert ==
    /\ mode = "convert"
    /\ zplCode \in ZplCodes
    /\ convertResult = NotCalled
    /\ CodecIdle
    /\ RasterIdle
    /\ PrintIdle

Convert ==
    /\ mode = "convert"
    /\ convertResult.status = "none"
    /\ convertResult' = convert(zplCode)
    /\ UNCHANGED <<mode, zplCode, codecVars, rasterVars, printVars, buttonVars>>

NextConvert == Convert
SpecConvert == InitConvert /\ [][NextConvert]_vars

(***************************************************************************)
(* The layout path: the placed elements are drawn, print is called up to   *)
(* twice over them.  A call runs without interruption up to an             *)
(* await loadImage(src) and from the settling of that promise to the next  *)
(* await or to its return; calls interleave at the awaits only.            *)
(***************************************************************************)
InitPrint ==
    /\ mode = "print"
    /\ version \in Versions
    /\ designItems \in SeqsUpTo(ItemKinds, MaxItems)
    /\ dataDplName = [i \in DOMAIN designItems |-> <<>>]
    /\ argument = [k \in Calls |-> "none"]
    /\ pc = [k \in Calls |-> "idle"]
    /\ loading = [k \in Calls |-> 0]
    /\ pendingName = [k \in Calls |-> <<>>]
    /\ imageStorageScript = [k \in Calls |-> <<>>]
    /\ log = [k \in Calls |-> <<>>]
    /\ printResult = [k \in Calls |-> NotCalled]
    /\ ButtonIdle
    /\ CodecIdle
    /\ RasterIdle
    /\ ConvertIdle

\* print is called directly ("print") or by the button's click handler ("button")
PrintModes == {"print", "button"}

\* What print is handed as designItems.  A direct caller passes an array, as
\* the parameter is declared.  The click handler passes what the designer
\* library returns, whose code is not part of this repository:
\* rootDesignItem.children() (initialize.ts line 58) or model.designItems
\* (line 132).  That is an array, or an iterator, which a for...of reads once
\* and leaves spent, or a value that is not iterable, such as undefined.
ArgumentKinds == {"array", "iterator", "undefined"}

\* the elements the second for...of of print reads once the first has read
\* them all; v2 has one loop only, which reads them the first time
ReadAgain(kind, ver, items) ==
    IF kind = "iterator" /\ ver # "v2" THEN <<>> ELSE items

\* call k, handed an argument of the given kind, goes on with the first pass
\* at item `from`, with the accumulator, the log and the elements' attributes
\* as given: up to the next await, or through the second pass to the return
Advance(k, kind, from, storage, logged, names) ==
    LET j == NextLoad(version, designItems, from) IN
    /\ dataDplName' = names
    /\ imageStorageScript' = [imageStorageScript EXCEPT ![k] = storage]
    /\ IF j # 0
       THEN /\ \E name \in ImageNames(designItems[j], RandomSuffixes) :
                  pendingName' = [pendingName EXCEPT ![k] = name]
            /\ pc' = [pc EXCEPT ![k] = "loading"]
            /\ loading' = [loading EXCEPT ![k] = j]
            /\ log' = [log EXCEPT ![k] = logged]
            /\ UNCHANGED printResult
       ELSE /\ pc' = [pc EXCEPT ![k] = "done"]
            /\ loading' = [loading EXCEPT ![k] = 0]
            /\ pendingName' = [pendingName EXCEPT ![k] = <<>>]
            /\ log' = [log EXCEPT ![k] =
                    logged \o SecondPassLog(version, ReadAgain(kind, version, designItems), 1)]
            /\ printResult' = [printResult EXCEPT ![k] =
                    Returned(AssemblePrint(version, storage,
                        SecondPass(version, ReadAgain(kind, version, designItems), names, 1)))]

\* the body of print from its call: up to the first await or to the return,
\* or, when the argument is not iterable, to the TypeError of the first
\* for...of, with which the promise of print rejects
PrintStart(k, kind) ==
    /\ argument' = [argument EXCEPT ![k] = kind]
    /\ IF kind \in {"array", "iterator"}
       THEN Advance(k, kind, 1, <<>>, <<>>, dataDplName)
       ELSE /\ pc' = [pc EXCEPT ![k] = "done"]
            /\ printResult' = [printResult EXCEPT ![k] = Thrown("TypeError")]
            /\ UNCHANGED <<dataDplName, loading, pendingName, imageStorageScript, log>>

\* print(designItems) is called; calls are numbered in the order they start
PrintCall(k) ==
    /\ mode = "print"
    /\ pc[k] = "idle"
    /\ (IF k = 1 THEN TRUE ELSE pc[k - 1] # "idle")
    /\ PrintStart(k, "array")
    /\ UNCHANGED <<mode, version, designItems, codecVars, rasterVars, convertVars, buttonVars>>

\* what the try block does once the image is there: the store-image command
\* and setAttribute('data-dpl-name'), or the catch when the encoding throws
AfterLoad(k, image) ==
    LET j == loading[k]
        bm == imageToMonochromeBitmap(image)
    IN  IF bm.status = "throw"
        THEN Advance(k, argument[k], j + 1, imageStorageScript[k],
                     Append(log[k], [level |-> "error", src |-> j, error |-> bm.error]),
                     dataDplName)
        ELSE Advance(k, argument[k], j + 1,
                     Append(imageStorageScript[k],
                            StoreCommand(j, pendingName[k], bitmapToDplHex(bm.value))),
                     log[k], [dataDplName EXCEPT ![j] = pendingName[k]])

\* img.onload: the promise of loadImage resolves
LoadResolve(k) ==
    /\ mode \in PrintModes
    /\ pc[k] = "loading"
    /\ \E image \in Images : AfterLoad(k, image)
    /\ UNCHANGED <<mode, version, designItems, argument, codecVars, rasterVars, convertVars,
                   buttonVars>>

\* img.onerror: the promise rejects, the catch logs and the loop goes on
LoadReject(k) ==
    /\ mode \in PrintModes
    /\ pc[k] = "loading"
    /\ Advance(k, argument[k], loading[k] + 1, imageStorageScript[k],
               Append(log[k], [level |-> "error", src |-> loading[k],
                              error |-> "Failed to load image"]), dataDplName)
    /\ UNCHANGED <<mode, version, designItems, argument, codecVars, rasterVars, convertVars,
                   buttonVars>>

NextPrint == \E k \in Calls : PrintCall(k) \/ LoadResolve(k) \/ LoadReject(k)
SpecPrint == InitPrint /\ [][NextPrint]_vars

(***************************************************************************)
(* The image pass: print called up to twice over text and image elements,  *)
(* the images with or without a source.                                    *)
(***************************************************************************)
AcquireItemKinds == {ItemText, ItemImageNamed, ItemImageNoSrc}

InitAcquire ==
    /\ mode = "print"
    /\ version \in Versions
    /\ designItems \in SeqsUpTo(AcquireItemKinds, MaxItems)
    /\ dataDplName = [i \in DOMAIN designItems |-> <<>>]
    /\ argument = [k \in Calls |-> "none"]
    /\ pc = [k \in Calls |-> "idle"]
    /\ loading = [k \in Calls |-> 0]
    /\ pendingName = [k \in Calls |-> <<>>]
    /\ imageStorageScript = [k \in Calls |-> <<>>]
    /\ log = [k \in Calls |-> <<>>]
    /\ printResult = [k \in Calls |-> NotCalled]
    /\ ButtonIdle
    /\ CodecIdle
    /\ RasterIdle
    /\ ConvertIdle

SpecAcquire == InitAcquire /\ [][NextPrint]_vars

(***************************************************************************)
(* The DPL print button of initialize.ts.  A click runs the handler up to  *)
(* `await dplService.print(designItems)`, print itself running up to its   *)
(* first await, to its return or to its throw; when the promise of print   *)
(* has resolved the handler logs the script and shows the alert, when it   *)
(* has rejected the catch block logs the error, and the finally block runs *)
(* after either.  A disabled button dispatches no click.  The image of an  *)
(* awaited load fires onload or onerror in the end, and a settled promise  *)
(* resumes its awaiter: the two fairness conditions.                       *)
(***************************************************************************)
ButtonItemKinds == {ItemText, ItemImageNamed, ItemImageNoSrc, ItemUnknown}

InitButton ==
    /\ mode = "button"
    /\ version \in Versions
    /\ designItems \in SeqsUpTo(ButtonItemKinds, MaxItems)
    /\ dataDplName = [i \in DOMAIN designItems |-> <<>>]
    /\ argument = [k \in Calls |-> "none"]
    /\ pc = [k \in Calls |-> "idle"]
    /\ loading = [k \in Calls |-> 0]
    /\ pendingName = [k \in Calls |-> <<>>]
    /\ imageStorageScript = [k \in Calls |-> <<>>]
    /\ log = [k \in Calls |-> <<>>]
    /\ printResult = [k \in Calls |-> NotCalled]
    /\ ButtonIdle
    /\ CodecIdle
    /\ RasterIdle
    /\ ConvertIdle

\* the click listener, from `printDplButton.disabled = true` to the await:
\* print is handed the value the designer library returns
ButtonClick(k) ==
    /\ mode = "button"
    /\ ~button.disabled
    /\ pc[k] = "idle"
    /\ (IF k = 1 THEN TRUE ELSE pc[k - 1] # "idle")
    /\ button' = ButtonGenerating
    /\ handler' = k
    /\ \E kind \in ArgumentKinds : PrintStart(k, kind)
    /\ UNCHANGED <<mode, version, designItems, codecVars, rasterVars, convertVars>>

\* the listener after the await when print has resolved: console.log, alert,
\* then the finally block
HandlerResume(k) ==
    /\ mode = "button"
    /\ handler = k
    /\ pc[k] = "done"
    /\ printResult[k].status = "ok"
    /\ button' = ButtonReady
    /\ handler' = 0
    /\ UNCHANGED <<mode, codecVars, rasterVars, convertVars, printVars>>

\* the listener after the await when print has rejected: the catch block's
\* console.error("Failed to generate DPL code:", error), then the finally block
HandlerCatch(k) ==
    /\ mode = "button"
    /\ handler = k
    /\ pc[k] = "done"
    /\ printResult[k].status = "throw"
    /\ log' = [log EXCEPT ![k] =
                  Append(log[k], [level |-> "error", src |-> 0, error |-> printResult[k].error])]
    /\ button' = ButtonReady
    /\ handler' = 0
    /\ UNCHANGED <<mode, codecVars, rasterVars, convertVars, version, designItems, dataDplName,
                   argument, pc, loading, pendingName, imageStorageScript, printResult>>

NextButton ==
    \E k \in Calls : \/ ButtonClick(k)
                     \/ LoadResolve(k)
                     \/ LoadReject(k)
                     \/ HandlerResume(k)
                     \/ HandlerCatch(k)

SpecButton ==
    /\ InitButton
    /\ [][NextButton]_vars
    /\ WF_vars(\E k \in Calls : LoadResolve(k) \/ LoadReject(k))
    /\ WF_vars(\E k \in Calls : HandlerResume(k) \/ HandlerCatch(k))

(***************************************************************************)
(* Both paths to a script: the text path or the layout path.               *)
(***************************************************************************)
InitScripts == InitConvert \/ InitPrint
NextScripts == Convert \/ NextPrint
SpecScripts == InitScripts /\ [][NextScripts]_vars

(***************************************************************************)
(* Positions: one positioned command on the text path, one positioned      *)
(* element on the layout path, the coordinates drawn from the values where *)
(* the number of digits changes, inside and outside the 4-digit range.     *)
(***************************************************************************)
InRangeCoordinates == {0, 7, 9, 10, 99, 100, 150, 999, 1000, 9999}
OutOfRangeCoordinates == {-150, -1, 10000, 12345}
Coordinates == InRangeCoordinates \cup OutOfRangeCoordinates
Sizes == {0, 30}

\* the decimal numeral of an integer, as the markup and the styles write it
Numeral(n) == IF n < 0 THEN <<"-">> \o NatToString(-n) ELSE NatToString(n)
\* the computed style of a length: `${n}px`
Px(n) == Numeral(n) \o <<"p", "x">>

\* lengths written the other ways parseFloat reads: with an exponent part,
\* after white space, with a fraction and an exponent part
SpelledCoordinates ==
    { [text |-> <<"1", "e", "3", "p", "x">>, value |-> 1000],
      [text |-> <<"\f", "8", "p", "x">>, value |-> 8],
      [text |-> <<"1", ".", "5", "e", "1", "p", "x">>, value |-> 15] }

PositionPayload == <<"T">>

\* the commands that are placed at the cursor: ^FDT, ^BCN^FDT, ^GBw,h,2, ^XGR:A,1,1
PositionedCommands ==
    { <<"^", "F", "D">> \o PositionPayload,
      CmdBarcode \o <<"^", "F", "D">> \o PositionPayload,
      CmdRecall }
    \cup { <<"^", "G", "B">> \o Numeral(w) \o <<",">> \o Numeral(h) \o <<",", "2">> :
             w \in Sizes, h \in Sizes }

\* ^XA^FOx,y<command>^XZ
PositionCode(x, y, command) ==
    LabelStart \o <<"^", "F", "O">> \o Numeral(x) \o <<",">> \o Numeral(y)
    \o command \o LabelEnd

PositionCodes ==
    { PositionCode(x, y, command) :
        x \in Coordinates, y \in Coordinates, command \in PositionedCommands }

\* an element of the given kind moved to (left, top) and given a size; its
\* text or data is the payload
PositionedItem(kind, left, top, width, height) ==
    [tagName |-> kind.tagName,
     style |-> [left |-> Px(left), top |-> Px(top),
                width |-> Px(width), height |-> Px(height)],
     attrs |-> IF kind.tagName = ItemText.tagName THEN ("text" :> PositionPayload)
               ELSE IF kind.tagName = ItemBarcode.tagName THEN ("data" :> PositionPayload)
               ELSE kind.attrs]

PositionedKinds == {ItemText, ItemBarcode, ItemBox, ItemCircle, ItemLine, ItemImageNamed}

\* the kinds whose command has an end position computed from the size
SizedKinds == {ItemBox, ItemLine}

PositionedItems ==
    { PositionedItem(kind, left, top, width, height) :
        kind \in SizedKinds, left \in Coordinates, top \in Coordinates,
        width \in Sizes, height \in Sizes }
    \cup { PositionedItem(kind, left, top, 0, 0) :
        kind \in PositionedKinds \ SizedKinds, left \in Coordinates, top \in Coordinates }
    \cup { [PositionedItem(ItemText, 0, 0, 0, 0) EXCEPT
               !.style.left = left.text, !.style.top = top.text] :
        left \in SpelledCoordinates, top \in SpelledCoordinates }

InitConvertPosition ==
    /\ mode = "convert"
    /\ zplCode \in PositionCodes
    /\ convertResult = NotCalled
    /\ CodecIdle
    /\ RasterIdle
    /\ PrintIdle

InitPrintPosition ==
    /\ mode = "print"
    /\ version \in Versions
    /\ designItems \in { <<item>> : item \in PositionedItems }
    /\ dataDplName = [i \in DOMAIN designItems |-> <<>>]
    /\ argument = [k \in Calls |-> "none"]
    /\ pc = [k \in Calls |-> "idle"]
    /\ loading = [k \in Calls |-> 0]
    /\ pendingName = [k \in Calls |-> <<>>]
    /\ imageStorageScript = [k \in Calls |-> <<>>]
    /\ log = [k \in Calls |-> <<>>]
    /\ printResult = [k \in Calls |-> NotCalled]
    /\ ButtonIdle
    /\ CodecIdle
    /\ RasterIdle
    /\ ConvertIdle

InitPosition == InitConvertPosition \/ InitPrintPosition
SpecPosition == InitPosition /\ [][NextScripts]_vars

(***************************************************************************)
(* The label block alone: ^XA, up to MaxCommands commands, ^XZ.  Two       *)
(* position commands and two text-data commands tell the latest from the   *)
(* first and the next from the last.                                       *)
(***************************************************************************)
\* ^FO7,150
CmdPositionOther == <<"^", "F", "O", "7", ",", "1", "5", "0">>
\* ^FDAB
CmdTextOther == <<"^", "F", "D", "A", "B">>

LabelFragments ==
    {CmdPosition, CmdPositionOther, CmdText, CmdTextOther,
     CmdSeparator, CmdBarcode, CmdBox, CmdRecall}

LabelCodes ==
    { BuildCode(<<>>, commands, TRUE) : commands \in SeqsUpTo(LabelFragments, MaxCommands) }

InitLabel ==
    /\ mode = "convert"
    /\ zplCode \in LabelCodes
    /\ convertResult = NotCalled
    /\ CodecIdle
    /\ RasterIdle
    /\ PrintIdle

SpecLabel == InitLabel /\ [][NextConvert]_vars

(***************************************************************************)
(* Properties of the codec.                                                *)
(***************************************************************************)
\* the token characters as the documentation lists them, by rank
UpperRangeTokens ==
    <<"G","H","I","J","K","L","M","N","O","P","Q","R","S","T","U","V","W","X","Y">>
LowerRangeTokens ==
    <<"g","h","i","j","k","l","m","n","o","p","q","r","s","t","u","v","w","x","y">>
IsTokenChar(c) == c \in Range(UpperRangeTokens) \cup Range(LowerRangeTokens)
TokenCount(c) ==
    IF c \in Range(UpperRangeTokens) THEN IndexOf(UpperRangeTokens, c)
    ELSE 20 * IndexOf(LowerRangeTokens, c)

\* a payload read as (token, literal) pairs and passthrough characters
RECURSIVE IsPairSequence(_)
IsPairSequence(s) ==
    IF s = <<>> THEN TRUE
    ELSE IF IsTokenChar(Head(s)) THEN Len(s) >= 2 /\ IsPairSequence(Tail(Tail(s)))
    ELSE IsPairSequence(Tail(s))

RECURSIVE PairSequenceLength(_)
PairSequenceLength(s) ==
    IF s = <<>> THEN 0
    ELSE IF IsTokenChar(Head(s)) THEN TokenCount(Head(s)) + PairSequenceLength(Tail(Tail(s)))
    ELSE 1 + PairSequenceLength(Tail(s))

\* the payload ends with a token character in token position
RECURSIVE EndsWithDanglingToken(_)
EndsWithDanglingToken(s) ==
    IF s = <<>> THEN FALSE
    ELSE IF IsTokenChar(Head(s)) THEN Len(s) = 1 \/ EndsWithDanglingToken(Tail(Tail(s)))
    ELSE EndsWithDanglingToken(Tail(s))

Decompressed == mode = "codec" /\ decompressResult.status # "none"

\* C5: for a payload that is a sequence of (token, literal) pairs and passthrough
\* characters, decompression returns a string whose length is the sum of the
\* tokens' counts plus one per passthrough character; the character after a
\* token is consumed as its literal even when it is a token character itself.
C5_LengthLaw ==
    (Decompressed /\ IsPairSequence(zplData)) =>
        /\ decompressResult.status = "ok"
        /\ Len(decompressResult.value) = PairSequenceLength(zplData)
        /\ (zplData # <<>> /\ IsTokenChar(zplData[1])) =>
              /\ Len(decompressResult.value) >= TokenCount(zplData[1])
              /\ \A j \in 1..TokenCount(zplData[1]) :
                    decompressResult.value[j] = UpperChar(zplData[2])

C5_Witness ==
    /\ Decompressed
    /\ zplData = <<"G", "H", "0">>
    /\ decompressResult.value = <<"H", "0">>

\* C6 as stated: a token of rank k followed by a literal c decodes to k
\* (upper range) or 20*k (lower range) repetitions of c itself.
C6_Original ==
    (Decompressed /\ Len(zplData) = 2 /\ IsTokenChar(zplData[1])) =>
        /\ decompressResult.status = "ok"
        /\ decompressResult.value = Repeat(zplData[2], TokenCount(zplData[1]))

\* C6 amended: a token of rank k followed by a literal c decodes to k (upper
\* range 'G'..'Y') or 20*k (lower range 'g'..'y') repetitions of c converted to
\* upper case; the two token ranges are disjoint.
C6_TokenCountLaw ==
    /\ Range(UpperRangeTokens) \cap Range(LowerRangeTokens) = {}
    /\ (Decompressed /\ Len(zplData) = 2 /\ IsTokenChar(zplData[1])) =>
          /\ decompressResult.status = "ok"
          /\ decompressResult.value = Repeat(UpperChar(zplData[2]), TokenCount(zplData[1]))

C6_Witness ==
    /\ Decompressed
    /\ zplData = <<"g", "a">>
    /\ decompressResult.value = Repeat("A", 20)

\* C7: a payload whose last character is a token in token position makes
\* decompression signal an error and return no string.
C7_DanglingTokenThrows ==
    (Decompressed /\ EndsWithDanglingToken(zplData)) =>
        /\ decompressResult.status = "throw"
        /\ decompressResult.value = <<>>

C7_Witness ==
    /\ Decompressed
    /\ zplData = <<"0", "G">>
    /\ decompressResult.status = "throw"

(***************************************************************************)
(* Properties of the raster encoder.                                       *)
(***************************************************************************)
UpperHexChars ==
    <<"0","1","2","3","4","5","6","7","8","9","A","B","C","D","E","F">>
HexValue(c) == IndexOf(UpperHexChars, c) - 1
BytesPerRow(w) == (w + 7) \div 8
Pixel(bm, r, x) == IF x < bm.width THEN bm.data[r * bm.width + x + 1] ELSE 0
Pow2(n) == ShiftLeft(1, n)

RECURSIVE SumBits(_, _, _, _)
SumBits(bm, r, b, k) ==
    IF k > 7 THEN 0
    ELSE Pixel(bm, r, 8 * b + k) * Pow2(7 - k) + SumBits(bm, r, b, k + 1)

Encoded == mode = "raster" /\ hexResult.status = "ok"

\* C9: the hex string of a W x H bitmap has exactly 2 * H * ceil(W/8) upper-case
\* hex characters, all '0' when every pixel is background.
C9_RasterLength ==
    Encoded =>
        /\ Len(hexResult.value) = 2 * bitmap.height * BytesPerRow(bitmap.width)
        /\ \A i \in DOMAIN hexResult.value : hexResult.value[i] \in Range(UpperHexChars)
        /\ (\A p \in DOMAIN bitmap.data : bitmap.data[p] = 0) =>
              \A i \in DOMAIN hexResult.value : hexResult.value[i] = "0"

C9_Witness ==
    /\ Encoded
    /\ bitmap.width = 9 /\ bitmap.height = 2
    /\ hexResult.value = Repeat("0", 8)

\* C10: byte b of row r holds pixels 8b..8b+7 of row r, most significant bit
\* first, zero past the row's width; rows follow each other in order.
C10_RowAlignedPacking ==
    Encoded =>
        /\ Len(hexResult.value) = 2 * bitmap.height * BytesPerRow(bitmap.width)
        /\ \A r \in 0..(bitmap.height - 1) : \A b \in 0..(BytesPerRow(bitmap.width) - 1) :
              LET at == 2 * (r * BytesPerRow(bitmap.width) + b) IN
              /\ hexResult.value[at + 1] \in Range(UpperHexChars)
              /\ hexResult.value[at + 2] \in Range(UpperHexChars)
              /\ 16 * HexValue(hexResult.value[at + 1]) + HexValue(hexResult.value[at + 2])
                    = SumBits(bitmap, r, b, 0)

C10_Witness ==
    /\ Encoded
    /\ bitmap.width = 9 /\ bitmap.height = 2
    /\ bitmap.data = <<0,0,0,0,0,0,0,0,1, 0,1,0,0,0,0,0,0,0>>
    /\ hexResult.value = <<"0","0","8","0","4","0","0","0">>

(***************************************************************************)
(* Properties of convert.                                                  *)
(***************************************************************************)
Converted == mode = "convert" /\ convertResult.status # "none"
ConvertedOk == mode = "convert" /\ convertResult.status = "ok"

\* ^XA^FO100,200^FDHELLO^FS^XZ
ExampleMarkup == <<"^", "X", "A", "^", "F", "O", "1", "0", "0", ",", "2", "0", "0", "^", "F", "D", "H", "E", "L", "L", "O", "^", "F", "S", "^", "X", "Z">>
ExampleScript == <<STX, "L", CR, "D", "1", "1", CR, "1", "2", "1", "1", "0", "0", "0", "0", "2", "0", "0", "0", "1", "0", "0", "H", "E", "L", "L", "O", CR, "E", CR>>

\* C3: convert of ^XA^FO100,200^FDHELLO^FS^XZ returns the header, no
\* store-image command, the text emission 1211000 0200 0100 HELLO CR and E CR.
C3_EndToEndExample ==
    (Converted /\ zplCode = ExampleMarkup) =>
        /\ convertResult.status = "ok"
        /\ ScriptText(convertResult.value) = ExampleScript
        /\ \A i \in DOMAIN convertResult.value : convertResult.value[i].kind # "store"
        /\ Cardinality({ i \in DOMAIN convertResult.value :
                           convertResult.value[i].kind \notin {"start", "config", "end"} }) = 1

C3_Witness ==
    /\ ConvertedOk
    /\ zplCode = ExampleMarkup
    /\ ScriptText(convertResult.value) = ExampleScript

\* the payloads of the markup whose decompression fails / succeeds
DgMatches == MatchAllDg(zplCode, 1)
DecodeFails(m) == decompressZplAsciiHex(StripLineBreaks(m.data)).status = "throw"

\* C8 as stated: when convert meets several image payload blocks and one of
\* them fails to decompress, it still returns a script; the script holds the
\* store-image command of every other payload, none for the failed one, and
\* the layout pass output.
C8_DecodeErrorsIsolated ==
    (/\ Converted
     /\ Len(DgMatches) >= 2
     /\ \E k \in DOMAIN DgMatches : DecodeFails(DgMatches[k])
     /\ LayoutPass(zplCode).status = "ok") =>
        /\ convertResult.status = "ok"
        /\ \A k \in DOMAIN DgMatches :
              DecodeFails(DgMatches[k]) <=>
                 ~\E i \in DOMAIN convertResult.value :
                     convertResult.value[i].kind = "store" /\ convertResult.value[i].src = k
        /\ \A j \in DOMAIN LayoutPass(zplCode).value :
              \E i \in DOMAIN convertResult.value :
                  convertResult.value[i] = LayoutPass(zplCode).value[j]

(***************************************************************************)
(* Properties of the scripts of both paths.                                *)
(***************************************************************************)
LayoutKinds == {"text", "barcode", "box", "circle", "line", "recall"}

\* the scripts returned so far, by convert or by a call of print
ReturnedScripts ==
    (IF mode = "convert" /\ convertResult.status = "ok" THEN {convertResult.value} ELSE {})
    \cup (IF mode = "print"
          THEN { printResult[k].value : k \in { c \in Calls : printResult[c].status = "ok" } }
          ELSE {})

StoresBeforeLayout(script) ==
    \A i, j \in DOMAIN script :
        (script[i].kind = "store" /\ script[j].kind \in LayoutKinds) => i < j

\* C1: in every script convert or print returns, every store-image command
\* comes before the first layout command.
C1_PassOrdering == \A script \in ReturnedScripts : StoresBeforeLayout(script)

C1_Witness ==
    /\ mode = "print" /\ version = "v3"
    /\ designItems = <<ItemText, ItemImageNamed>>
    /\ printResult[1].status = "ok"
    /\ [i \in DOMAIN printResult[1].value |-> printResult[1].value[i].kind]
          = <<"start", "config", "store", "text", "recall", "end">>

HeaderText == <<STX, "L", CR, "D", "1", "1", CR>>

Framed(script) ==
    /\ Len(script) >= 3
    /\ script[1] = StartOfLabel
    /\ script[2] = ConfigCommand
    /\ script[Len(script)] = EndOfLabel
    /\ \A i \in 3..(Len(script) - 1) : script[i].kind \in LayoutKinds \cup {"store"}
    /\ StoresBeforeLayout(script)
    /\ SubSeq(ScriptText(script), 1, Len(HeaderText)) = HeaderText

\* C2 as stated: every script returned by convert and by every version of
\* print is the start-of-label marker, the configuration command, the
\* image-storage output, the layout output and the end-of-label command, the
\* marker and the configuration command occurring once, as the prefix.
C2_Framing == \A script \in ReturnedScripts : Framed(script)

(***************************************************************************)
(* Properties of print.                                                    *)
(***************************************************************************)
\* the load or the encoding of item i failed in call k
LoadFailed(k, i) ==
    \E n \in DOMAIN log[k] : log[k][n].level = "error" /\ log[k][n].src = i
HasCommand(script, kind, i) ==
    \E n \in DOMAIN script : script[n].kind = kind /\ script[n].src = i

\* C4 as stated: in a call of the current print, an image element whose load
\* or encoding failed has neither a store-image nor an image-recall command in
\* the returned script; a recall command is there only for an element with a
\* store-image command in that script; the commands of the elements that are
\* not images are all there.
C4_ImageFailureSkipped ==
    (mode = "print" /\ version = "v3") =>
        \A k \in Calls : printResult[k].status = "ok" =>
            \A i \in DOMAIN designItems :
                /\ LoadFailed(k, i) =>
                      /\ ~HasCommand(printResult[k].value, "store", i)
                      /\ ~HasCommand(printResult[k].value, "recall", i)
                /\ HasCommand(printResult[k].value, "recall", i) =>
                      HasCommand(printResult[k].value, "store", i)
                /\ TagName(designItems[i]) \in KnownTags \ {TagImage} =>
                      \E n \in DOMAIN printResult[k].value : printResult[k].value[n].src = i

(***************************************************************************)
(* Properties of the position fields.                                      *)
(***************************************************************************)
\* the 4-digit numeral of a coordinate between 0 and 9999
FourDigits(n) ==
    <<DigitChars[((n \div 1000) % 10) + 1], DigitChars[((n \div 100) % 10) + 1],
      DigitChars[((n \div 10) % 10) + 1], DigitChars[(n % 10) + 1]>>

IsFourDigits(field) == Len(field) = 4 /\ \A i \in DOMAIN field : IsDigit(field[i])

\* how a command of each kind starts, given its Y and X fields
FieldPrefix(kind, yField, xField) ==
    IF kind = "text" THEN TextPrefix \o yField \o xField
    ELSE IF kind = "barcode" THEN <<"B", "C">> \o yField \o xField
    ELSE (CASE kind = "box" -> <<"E">>
            [] kind = "circle" -> <<"C">>
            [] kind = "line" -> <<"X">>
            [] kind = "recall" -> <<"Y">>)
         \o yField \o <<",">> \o xField \o <<",">>

StartsWith(text, prefix) ==
    Len(text) >= Len(prefix) /\ SubSeq(text, 1, Len(prefix)) = prefix

LayoutCommands(script) == { n \in DOMAIN script : script[n].kind \in LayoutKinds }

\* every layout command of the script is placed at (x, y), and there is one
PlacedAt(script, x, y) ==
    /\ \E n \in DOMAIN script : script[n].kind \in LayoutKinds \ {"recall"}
    /\ \A n \in LayoutCommands(script) :
          StartsWith(script[n].text, FieldPrefix(script[n].kind, FourDigits(y), FourDigits(x)))

\* C11: an integer pixel coordinate from 0 to 9999 is written as exactly 4
\* decimal digits, left-padded with zeros (7 as 0007, 150 as 0150), by
\* toDplPosition on the layout path, however parseFloat reads the length
\* (1e3px as 1000), and from the parameters of the position command on the
\* text path.
C11_PositionPadding ==
    /\ ConvertedOk =>
          \A x \in InRangeCoordinates :
             StartsWith(zplCode, LabelStart \o <<"^", "F", "O">> \o Numeral(x) \o <<",">>) =>
                \A y \in InRangeCoordinates :
                   (\E command \in PositionedCommands \ {CmdRecall} :
                       zplCode = PositionCode(x, y, command))
                      => PlacedAt(convertResult.value, x, y)
    /\ (mode = "print" /\ Len(designItems) = 1 /\ TagName(designItems[1]) # TagImage) =>
          \A left \in InRangeCoordinates :
             designItems[1].style.left = Px(left) =>
                \A top \in InRangeCoordinates :
                   designItems[1].style.top = Px(top) =>
                      \A k \in Calls :
                         printResult[k].status = "ok" =>
                            PlacedAt(printResult[k].value, left, top)
    /\ (mode = "print" /\ Len(designItems) = 1) =>
          \A left \in SpelledCoordinates :
             designItems[1].style.left = left.text =>
                \A top \in SpelledCoordinates :
                   designItems[1].style.top = top.text =>
                      \A k \in Calls :
                         printResult[k].status = "ok" =>
                            PlacedAt(printResult[k].value, left.value, top.value)

C11_Witness ==
    /\ mode = "print" /\ version = "v3"
    /\ Len(designItems) = 1
    /\ designItems[1].style.left = <<"7", "p", "x">>
    /\ designItems[1].style.top = <<"1", "5", "0", "p", "x">>
    /\ printResult[1].status = "ok"
    /\ \E n \in DOMAIN printResult[1].value :
          printResult[1].value[n].text
             = <<"1","2","1","1","0","0","0", "0","1","5","0", "0","0","0","7", "T", CR>>

\* the Y and X fields of a layout command, and the end fields of a box or a
\* line, are exactly 4 decimal digits each
PositionFieldsWellFormed(seg) ==
    IF seg.kind = "text"
    THEN /\ Len(seg.text) = Len(TextPrefix) + 8 + Len(PositionPayload) + 1
         /\ \A i \in 1..8 : IsDigit(seg.text[Len(TextPrefix) + i])
    ELSE IF seg.kind = "barcode"
    THEN /\ Len(seg.text) = 2 + 8 + Len(PositionPayload) + 1
         /\ \A i \in 1..8 : IsDigit(seg.text[2 + i])
    ELSE LET fields == Split(SubSeq(seg.text, 2, Len(seg.text) - 1), ",") IN
         /\ Len(fields) >= 3
         /\ IsFourDigits(fields[1])
         /\ IsFourDigits(fields[2])
         /\ seg.kind \in {"box", "line"} =>
               Len(fields) >= 5 /\ IsFourDigits(fields[3]) /\ IsFourDigits(fields[4])

\* C12 as stated: in no returned script is a Y or X field, or a computed end
\* field of a box or a line, other than exactly 4 decimal digits; a position
\* that cannot be written in 4 digits is flagged as an error instead.
C12_OutOfRangeFlagged ==
    \A script \in ReturnedScripts :
        \A n \in LayoutCommands(script) : PositionFieldsWellFormed(script[n])


(***************************************************************************)
(* Properties of the label block.  The commands of the block are read from *)
(* the markup by the tokenization rule: a command starts at each '^', its  *)
(* opcode is two characters, its parameter text goes up to the next '^'.   *)
(***************************************************************************)
LabelContent(code) == SubSeq(code, Len(LabelStart) + 1, Len(code) - Len(LabelEnd))

SourceCommands(code) ==
    LET pieces == Split(LabelContent(code), "^") IN
    [k \in 1..(Len(pieces) - 1) |->
        [opcode |-> SubSeq(pieces[k + 1], 1, 2),
         params |-> SubSeq(pieces[k + 1], 3, Len(pieces[k + 1]))]]

\* the place of the first text-data command after command k, 0 if none
FirstTextAfter(cmds, k) ==
    IF \E j \in (k + 1)..Len(cmds) : cmds[j].opcode = <<"F", "D">>
    THEN CHOOSE j \in (k + 1)..Len(cmds) :
            /\ cmds[j].opcode = <<"F", "D">>
            /\ \A i \in (k + 1)..(j - 1) : cmds[i].opcode # <<"F", "D">>
    ELSE 0

\* the payloads the barcode commands of the block resolve to, in order
RECURSIVE ExpectedBarcodePayloads(_, _)
ExpectedBarcodePayloads(cmds, k) ==
    IF k > Len(cmds) THEN <<>>
    ELSE (IF cmds[k].opcode = <<"B", "C">> /\ FirstTextAfter(cmds, k) # 0
          THEN <<cmds[FirstTextAfter(cmds, k)].params>>
          ELSE <<>>)
         \o ExpectedBarcodePayloads(cmds, k + 1)

IsBarcodeSeg(seg) == seg.kind = "barcode"

\* what follows the marker and the 8 position characters of a barcode command
BarcodeDataOffset == 2 + 2 * PositionWidth + 1

\* C13: each barcode command of the label block emits one barcode command
\* whose payload is the parameter text of the first text-data command after
\* it, whatever commands lie between; a barcode command with no text-data
\* command after it emits nothing.
C13_BarcodeForwardLookup ==
    ConvertedOk =>
        LET expected == ExpectedBarcodePayloads(SourceCommands(zplCode), 1)
            emitted == SelectSeq(convertResult.value, IsBarcodeSeg)
        IN  /\ Len(emitted) = Len(expected)
            /\ \A i \in DOMAIN emitted :
                  /\ StartsWith(emitted[i].text, <<"B", "C">>)
                  /\ Len(emitted[i].text) >= BarcodeDataOffset
                  /\ SubSeq(emitted[i].text, BarcodeDataOffset, Len(emitted[i].text))
                        = expected[i] \o <<CR>>

C13_Witness ==
    /\ ConvertedOk
    /\ zplCode = BuildCode(<<>>, <<CmdBarcode, CmdSeparator, CmdText>>, TRUE)
    /\ \E n \in DOMAIN convertResult.value :
          convertResult.value[n].text
             = <<"B","C", "0","0","0","0", "0","0","0","0", "H","E","L","L","O", CR>>

\* the cursor (x, y) in force when command k is reached
RECURSIVE CursorBefore(_, _)
CursorBefore(cmds, k) ==
    IF k <= 1 THEN <<0, 0>>
    ELSE IF cmds[k - 1].opcode = <<"F", "O">>
    THEN <<DigitRun(Split(cmds[k - 1].params, ",")[1], 1, 0),
           DigitRun(Split(cmds[k - 1].params, ",")[2], 1, 0)>>
    ELSE CursorBefore(cmds, k - 1)

\* C14: the cursor starts at (0,0), only a position command changes it (first
\* parameter x, second y); every emission is placed at the cursor the latest
\* position command before it has set, Y written before X; a position
\* command emits nothing.
C14_CursorCarryOver ==
    ConvertedOk =>
        LET cmds == SourceCommands(zplCode) IN
        \A n \in LayoutCommands(convertResult.value) :
            LET seg == convertResult.value[n]
                cursor == CursorBefore(cmds, seg.src)
            IN  /\ seg.src \in DOMAIN cmds
                /\ cmds[seg.src].opcode # <<"F", "O">>
                /\ StartsWith(seg.text,
                              FieldPrefix(seg.kind, FourDigits(cursor[2]), FourDigits(cursor[1])))

C14_Witness ==
    /\ ConvertedOk
    /\ zplCode = BuildCode(<<>>, <<CmdPositionOther, CmdText, CmdBox>>, TRUE)
    /\ [n \in DOMAIN convertResult.value |-> convertResult.value[n].kind]
          = <<"start", "config", "text", "box", "end">>
    /\ convertResult.value[4].text
          = <<"E", "0","1","5","0", ",", "0","0","0","7", ",", "0","1","7","0", ",",
              "0","0","1","7", ",", "2", ",", "2", CR>>

\* C18: every text-data command of the label block emits exactly one text
\* emission at the cursor, also when it has supplied the payload of an earlier
\* barcode command: the payload is then in the layout output twice, in the
\* barcode command first and in the text emission after it.
C18_TextAfterBarcode ==
    ConvertedOk =>
        LET cmds == SourceCommands(zplCode)
            script == convertResult.value
        IN  /\ \A k \in DOMAIN cmds :
                  cmds[k].opcode = <<"F", "D">> =>
                     /\ Cardinality({ n \in DOMAIN script :
                                        script[n].kind = "text" /\ script[n].src = k }) = 1
                     /\ \E n \in DOMAIN script :
                           script[n].text
                              = FieldPrefix("text", FourDigits(CursorBefore(cmds, k)[2]),
                                            FourDigits(CursorBefore(cmds, k)[1]))
                                \o cmds[k].params \o <<CR>>
            /\ \A b \in DOMAIN cmds :
                  (cmds[b].opcode = <<"B", "C">> /\ FirstTextAfter(cmds, b) # 0) =>
                     \E nb \in DOMAIN script, nt \in DOMAIN script :
                        /\ nb < nt
                        /\ script[nb].kind = "barcode" /\ script[nb].src = b
                        /\ script[nt].kind = "text" /\ script[nt].src = FirstTextAfter(cmds, b)
                        /\ SubSeq(script[nb].text, BarcodeDataOffset, Len(script[nb].text))
                              = cmds[FirstTextAfter(cmds, b)].params \o <<CR>>

C18_Witness ==
    /\ ConvertedOk
    /\ zplCode = BuildCode(<<>>, <<CmdBarcode, CmdText>>, TRUE)
    /\ ScriptText(convertResult.value)
          = HeaderText
            \o <<"B","C", "0","0","0","0", "0","0","0","0", "H","E","L","L","O", CR>>
            \o <<"1","2","1","1","0","0","0", "0","0","0","0", "0","0","0","0",
                 "H","E","L","L","O", CR>>
            \o <<"E", CR>>

(***************************************************************************)
(* Properties of the calls of print over the same elements.                *)
(***************************************************************************)
\* the image name of a store-image command `ID${imageName}\r...`
StoredName(seg) == SubSeq(seg.text, 3, Find(seg.text, <<CR>>, 1) - 1)
\* the image name of an image-recall command `Y${y},${x},${name}\r`
RecalledName(seg) == Split(SubSeq(seg.text, 2, Len(seg.text) - 1), ",")[3]

\* every recall of the script names the image the script stores for that element
RecallsOwnStores(script) ==
    \A n \in DOMAIN script :
        script[n].kind = "recall" =>
            \E m \in DOMAIN script :
                /\ script[m].kind = "store"
                /\ script[m].src = script[n].src
                /\ StoredName(script[m]) = RecalledName(script[n])

\* C15 as stated: whatever other call of the current print ran before or
\* interleaved with it over the same elements, a call's script recalls only
\* images its own store-image commands store, under the names it gave them.
C15_NoSharedState ==
    (mode = "print" /\ version = "v3") =>
        \A k \in Calls :
            printResult[k].status = "ok" => RecallsOwnStores(printResult[k].value)

\* a warning was recorded for item i in call k
Warned(k, i) ==
    \E n \in DOMAIN log[k] : log[k][n].level = "warn" /\ log[k][n].src = i

\* the commands of the script come in the order of the elements that caused them
InElementOrder(script) ==
    \A n, m \in LayoutCommands(script) : n < m => script[n].src <= script[m].src

\* C16 as stated: in every version of print an element whose tag is none of
\* text, barcode, box, circle, diagonal-line, image adds no command to the
\* script and has a warning recorded; the other elements' commands are all
\* there, in the elements' order.
C16_UnknownTypeWarned ==
    mode = "print" =>
        \A k \in Calls :
            printResult[k].status = "ok" =>
                /\ \A i \in DOMAIN designItems :
                      IF TagName(designItems[i]) \notin KnownTags
                      THEN /\ \A n \in DOMAIN printResult[k].value :
                                 printResult[k].value[n].src # i
                           /\ Warned(k, i)
                      ELSE TagName(designItems[i]) # TagImage =>
                              HasCommand(printResult[k].value,
                                         LayoutCommand(version, designItems[i], i, <<>>)[1].kind, i)
                /\ InElementOrder(printResult[k].value)

\* the load of item i has settled in call k: its store-image command is in the
\* accumulator, or its failure is in the log
Settled(k, i) == HasCommand(imageStorageScript[k], "store", i) \/ LoadFailed(k, i)

\* the loads call k has started and that have not settled
Outstanding(k) ==
    { i \in DOMAIN designItems :
        /\ NeedsLoad(designItems[i])
        /\ ~Settled(k, i)
        /\ \/ pc[k] = "done"
           \/ pc[k] = "loading" /\ i <= loading[k] }

StoresInElementOrder(segs) ==
    \A n, m \in DOMAIN segs :
        (segs[n].kind = "store" /\ segs[m].kind = "store" /\ n < m) => segs[n].src < segs[m].src

\* C17: in a call of a print that has the image pass, at most one image load
\* is outstanding; while the load of an element is awaited every image element
\* before it has settled (stored, or logged as failed), none after it has been
\* started, and no script has been returned; store-image commands are in the
\* elements' order; the script is returned with no load outstanding.
C17_SequentialAcquisition ==
    (mode = "print" /\ version \in {"v1", "v3"}) =>
        \A k \in Calls :
            /\ Cardinality(Outstanding(k)) <= 1
            /\ StoresInElementOrder(imageStorageScript[k])
            /\ pc[k] = "loading" =>
                  /\ Outstanding(k) = {loading[k]}
                  /\ printResult[k].status = "none"
                  /\ \A i \in DOMAIN designItems :
                        NeedsLoad(designItems[i]) => (Settled(k, i) <=> i < loading[k])
            /\ printResult[k].status = "ok" =>
                  /\ Outstanding(k) = {}
                  /\ StoresInElementOrder(printResult[k].value)
                  /\ \A i \in DOMAIN designItems :
                        NeedsLoad(designItems[i]) => Settled(k, i)

C17_Witness ==
    /\ mode = "print" /\ version = "v3"
    /\ designItems = <<ItemImageNamed, ItemImageNamed>>
    /\ pc[1] = "loading" /\ loading[1] = 2
    /\ HasCommand(imageStorageScript[1], "store", 1)
    /\ Outstanding(1) = {2}

(***************************************************************************)
(* Properties of the DPL print button.                                     *)
(***************************************************************************)
\* the calls of print that have been started and have not settled
InFlight == { k \in Calls : pc[k] = "loading" }

ButtonInvariant ==
    /\ button.disabled <=> handler # 0
    /\ button.disabled => button.textContent = "Generating..."
    /\ ~button.disabled => button.textContent = "Print DPL"
    /\ Cardinality(InFlight) <= 1
    /\ \A k \in InFlight : handler = k /\ button.disabled
    /\ \A k \in Calls : (pc[k] # "idle" /\ handler # k) => pc[k] = "done"

\* C19: the button is disabled from the click until the handler has seen print
\* settle, so no print started by a click is in flight while another is; once
\* print has settled, resolved or rejected, the button is re-enabled in the
\* end, labelled 'Print DPL'.
C19_ButtonDisabledInFlight ==
    /\ [](mode = "button" => ButtonInvariant)
    /\ (mode = "button" /\ button.disabled) ~> (button = ButtonReady)

C19_Witness ==
    /\ mode = "button"
    /\ pc[1] = "done" /\ printResult[1].status = "throw"
    /\ \E i \in DOMAIN log[1] : log[1][i].src = 0
    /\ argument[2] = "iterator"
    /\ pc[2] = "loading"
    /\ handler = 2
    /\ button = ButtonGenerating

=============================================================================
